---- MODULE Spec2Model ----
(***************************************************************************)
(* A model of the yagbe core: the event scheduler (private/sched.c), the   *)
(* timer peripheral (private/timer.c), the system bus (private/bus.c) and  *)
(* the system entry points (private/gb.c).                                 *)
(*                                                                         *)
(* Every operation of the C code is a set-valued operator over a machine   *)
(* record: it returns the set of machine states the call can end in.  The  *)
(* set has more than one element only where the C code has undefined       *)
(* behaviour (an access outside events[], a store through a null pointer). *)
(* An action of the state machine applies one operation to the current     *)
(* state and moves to one of its outcomes.                                 *)
(***************************************************************************)
EXTENDS Integers, Sequences, FiniteSets, TLC

VARIABLES current_timestamp, heap_size, events, interrupt_flag, bus, cpu,
          other, crashed, asked, fired, obs

vars == <<current_timestamp, heap_size, events, interrupt_flag, bus, cpu,
          other, crashed, asked, fired, obs>>

(***************************************************************************)
(* Program constants.                                                      *)
(***************************************************************************)
MAX_EVENTS == 10

\* libyagbe_sched_step: current_timestamp += 4.
QUANTUM == 4

\* unsigned int (the type of expiry_time) holds values modulo 2^w, w >= 16.
\* The narrowest width ISO C allows is modelled; a wider build truncates the
\* same way at its own 2^w.
UINT_MOD == 65536

\* size_t (the type of the heap indices) likewise.
SIZE_MOD == 65536

TAC_ENABLED == 4

FLAG_TIMER == 4

LIBYAGBE_BUS_MEM_SIZE_WRAM == 8192

LIBYAGBE_BUS_MEM_SIZE_HRAM == 128

LIBYAGBE_PPU_MEM_SIZE_VRAM == 8192

LIBYAGBE_BUS_IO_IF == 15

LIBYAGBE_BUS_IO_IE == 15

LIBYAGBE_APU_IO_NR50 == 4

LIBYAGBE_APU_IO_NR51 == 5

LIBYAGBE_APU_IO_NR52 == 6

LIBYAGBE_PPU_IO_LCDC == 0

LIBYAGBE_PPU_IO_SCY == 2

LIBYAGBE_PPU_IO_SCX == 3

LIBYAGBE_PPU_IO_LY == 4

LIBYAGBE_PPU_IO_BGP == 7

\* libyagbe/timer.h is not part of the sources at hand; the register offsets
\* are the ones of the hardware ($FF05, $FF06, $FF07).
LIBYAGBE_TIMER_IO_TIMA == 5

LIBYAGBE_TIMER_IO_TMA == 6

LIBYAGBE_TIMER_IO_TAC == 7

\* static const unsigned int timing[4] = {1024, 16, 64, 256};
timing(k) == CASE k = 0 -> 1024 [] k = 1 -> 16 [] k = 2 -> 64 [] k = 3 -> 256

(***************************************************************************)
(* Bounds of the model.                                                    *)
(***************************************************************************)
\* No operation starts once the timestamp has reached MaxTime.
MaxTime == 12

\* The scheduler's client inserts no event while MaxInserts are pending.
MaxInserts == 4

\* The same two bounds for the capacity runs (SpecCap).
CapMaxTime == 12

CapMaxInserts == 10

\* The timestamp bounds of the timer runs (SpecTimer), of the runs that only
\* write the timer's control register (SpecTac) and of the bus runs (SpecBus).
TimerMaxTime == 32

TacMaxTime == 80

BusMaxTime == 24

CpuMaxTime == 100

\* Two system objects are driven until this timestamp.
TwoMaxTime == 24

\* The peripheral registers are written and read until this timestamp.
IoMaxTime == 12

\* The timer's registers and the interrupt flags are written until this
\* timestamp (SpecOrder).
OrderMaxTime == 20

\* Work RAM and high RAM are written and read until this timestamp.
RamMaxTime == 12

\* The runs that start late (SpecLate) go on until this timestamp, and hold
\* at most this many events.
LateMaxTime == 65544

LateMaxInserts == 2

(***************************************************************************)
(* Values.                                                                 *)
(***************************************************************************)
Byte == 0..255

SlotIndex == 0..(MAX_EVENTS - 1)

\* memset(&events[i], 0, sizeof(struct libyagbe_sched_event))
ZeroEvent == [expiry_time |-> 0, cb_func |-> "NULL", userdata |-> "NULL"]

\* What a read outside events[] can return: a value below every expiry and a
\* value above every expiry.
WildValues == {0, UINT_MOD - 1}

\* The content of a slot after it has been swapped with memory outside events[].
WildEvent(w) == [expiry_time |-> w, cb_func |-> "wild", userdata |-> "wild"]

\* The machine: every variable of the model as one record.
Machine ==
  [current_timestamp |-> current_timestamp, heap_size |-> heap_size,
   events |-> events, interrupt_flag |-> interrupt_flag, bus |-> bus,
   cpu |-> cpu, other |-> other, crashed |-> crashed, asked |-> asked,
   fired |-> fired, obs |-> obs]

\* The state is the machine record m.
Is(m) ==
  /\ current_timestamp = m.current_timestamp
  /\ heap_size = m.heap_size
  /\ events = m.events
  /\ interrupt_flag = m.interrupt_flag
  /\ bus = m.bus
  /\ cpu = m.cpu
  /\ other = m.other
  /\ crashed = m.crashed
  /\ asked = m.asked
  /\ fired = m.fired
  /\ obs = m.obs

\* The next state is the machine record m.
Becomes(m) ==
  /\ current_timestamp' = m.current_timestamp
  /\ heap_size' = m.heap_size
  /\ events' = m.events
  /\ interrupt_flag' = m.interrupt_flag
  /\ bus' = m.bus
  /\ cpu' = m.cpu
  /\ other' = m.other
  /\ crashed' = m.crashed
  /\ asked' = m.asked
  /\ fired' = m.fired
  /\ obs' = m.obs

\* Run f on every outcome that is still running; a crashed outcome stays.
Then(S, f(_)) == UNION {IF m.crashed = "no" THEN f(m) ELSE {m} : m \in S}

\* The process ends: a failed assert() or a fault.
Crash(m, how) == [m EXCEPT !.crashed = how]

\* What the operation in progress has done so far (observation only).
Note(m, field, v) == [m EXCEPT !.obs = [m.obs EXCEPT ![field] = v]]

\* One more transaction on the bus in the operation in progress.
Transact(m, kind, address, data) ==
  Note(m, "trace",
       Append(m.obs.trace, [kind |-> kind, address |-> address, data |-> data]))

(***************************************************************************)
(* sched.c                                                                 *)
(***************************************************************************)
get_parent_node(index) == ((index - 1) % SIZE_MOD) \div 2

get_left_child_of_node(index) == (index * 2) + 1

get_right_child_of_node(index) == (index * 2) + 2

find_min(m) == m.events[0].expiry_time

\* SWAP(events[i], events[j], struct libyagbe_sched_event)
SWAP(evs, i, j) == [evs EXCEPT ![i] = evs[j], ![j] = evs[i]]

\* An access to events[index] with index outside the array.
OutOfBounds(m) == Note(m, "oob", TRUE)

\* Swap events[index] with memory outside the array that holds the value w.
SwapWithOutside(m, index, w) ==
  Note([m EXCEPT !.events[index] = WildEvent(w)], "oob", TRUE)

\* Some slot outside 0..heap_size-1 has been read.
TouchDead(m, index) ==
  IF index >= m.heap_size THEN Note(m, "dead", TRUE) ELSE m

RECURSIVE heapify_top_bottom(_, _)
heapify_top_bottom(m, parent_node) ==
  LET left_node == get_left_child_of_node(parent_node)
      right_node == get_right_child_of_node(parent_node)
      \* the second and third if, given the first one's choice
      Rest(m1, smallest_node) ==
        LET s2 == IF right_node < m1.heap_size
                     /\ m1.events[right_node].expiry_time
                          < m1.events[smallest_node].expiry_time
                  THEN right_node ELSE smallest_node
        IN IF s2 # parent_node
           THEN heapify_top_bottom(
                  [m1 EXCEPT !.events = SWAP(m1.events, s2, parent_node)], s2)
           ELSE {m1}
  IN IF ~(parent_node < m.heap_size)
     THEN Rest(m, parent_node)
     ELSE IF left_node \in SlotIndex
     THEN LET m1 == TouchDead(m, left_node)
          IN IF m1.events[left_node].expiry_time
                  < m1.events[parent_node].expiry_time
             THEN Rest(m1, left_node)
             ELSE Rest(m1, parent_node)
     ELSE \* events[left_node] lies outside the array
          UNION {IF w < m.events[parent_node].expiry_time
                 THEN {SwapWithOutside(TouchDead(m, left_node), parent_node, w)}
                 ELSE Rest(OutOfBounds(TouchDead(m, left_node)), parent_node)
                 : w \in WildValues}
          \cup {Crash(OutOfBounds(m), "fault")}

\* The event returned is events[0] as it was at the call: the caller keeps it.
extract_min(m) ==
  IF m.heap_size = 0 THEN {Crash(m, "assert")}
  ELSE LET hs == m.heap_size - 1
           m1 == [m EXCEPT !.heap_size = hs,
                           !.events[0] = IF hs = 0 THEN ZeroEvent
                                         ELSE m.events[hs]]
       IN heapify_top_bottom(m1, 0)

RECURSIVE heapify_bottom_top(_, _)
heapify_bottom_top(m, index) ==
  LET parent_node == get_parent_node(index)
  IN IF parent_node \in SlotIndex
     THEN IF m.events[parent_node].expiry_time > m.events[index].expiry_time
          THEN heapify_bottom_top(
                 Note([m EXCEPT !.events = SWAP(m.events, parent_node, index)],
                      "swaps", m.obs.swaps + 1),
                 parent_node)
          ELSE {m}
     ELSE \* events[parent_node] lies outside the array
          UNION {IF w > m.events[index].expiry_time
                 THEN {SwapWithOutside(TouchDead(m, parent_node), index, w)}
                 ELSE {OutOfBounds(TouchDead(m, parent_node))}
                 : w \in WildValues}
          \cup {Crash(OutOfBounds(m), "fault")}

libyagbe_sched_insert(m, event) ==
  IF m.heap_size = MAX_EVENTS - 1 THEN {Crash(m, "assert")}
  ELSE LET stored == [event EXCEPT !.expiry_time =
                        (event.expiry_time + m.current_timestamp) % UINT_MOD]
           m1 == [m EXCEPT !.events[m.heap_size] = stored,
                           !.heap_size = m.heap_size + 1]
       IN heapify_bottom_top(m1, m.heap_size)

libyagbe_sched_reset(m) ==
  {[m EXCEPT !.current_timestamp = 0,
             !.events = [i \in SlotIndex |-> ZeroEvent],
             !.heap_size = 0]}

\* The harness callback of the scheduler runs: it records the call.
test_cb(m, userdata) ==
  {[m EXCEPT !.fired = @ \cup {[userdata |-> userdata,
                               at |-> m.current_timestamp]}]}

(***************************************************************************)
(* timer.c                                                                 *)
(***************************************************************************)
\* x & TAC_ENABLED, as a truth value
TacEnabled(x) == (x \div TAC_ENABLED) % 2 = 1

\* (old & ~0x07) | (new & 0x07)
TacMerge(old, new) == (old \div 8) * 8 + (new % 8)

\* x | FLAG_TIMER
OrFlagTimer(x) == IF (x \div FLAG_TIMER) % 2 = 1 THEN x ELSE x + FLAG_TIMER

TimerEvent(tac) ==
  [expiry_time |-> timing(tac % 4), cb_func |-> "handle_timer_update",
   userdata |-> "timer"]

\* *interrupt_flag |= FLAG_TIMER: the static points at nothing, at the
\* interrupt flags of the system object or at those of a second one.
RaiseTimerFlag(m) ==
  IF m.interrupt_flag = "NULL"
  THEN \* a store through a null pointer: a fault, or a store that is lost
       {Crash(Note(m, "null", TRUE), "fault"), Note(m, "null", TRUE)}
  ELSE IF m.interrupt_flag = "bus"
  THEN {[m EXCEPT !.bus.interrupt_flag = OrFlagTimer(@)]}
  ELSE {[m EXCEPT !.other.bus.interrupt_flag = OrFlagTimer(@)]}

\* The timer object that userdata points at.
TimerAt(m, userdata) ==
  IF userdata = "timer" THEN m.bus.timer ELSE m.other.bus.timer

\* timer->tima = tima
SetTima(m, userdata, tima) ==
  IF userdata = "timer" THEN [m EXCEPT !.bus.timer.tima = tima]
  ELSE [m EXCEPT !.other.bus.timer.tima = tima]

handle_timer_update(m, userdata) ==
  LET timer == TimerAt(m, userdata)
      event == [TimerEvent(timer.tac) EXCEPT !.userdata = userdata]
      counted ==
        IF timer.tima = 255
        THEN RaiseTimerFlag(Note(Note(SetTima(m, userdata, timer.tma),
                                      "wrapped", TRUE),
                                 "timer", userdata))
        ELSE {SetTima(m, userdata, timer.tima + 1)}
  IN Then(counted,
          LAMBDA x : IF TacEnabled(timer.tac)
                     THEN libyagbe_sched_insert(x, event)
                     ELSE {x})

libyagbe_timer_set_interrupt_flag(m, iflag) ==
  {[m EXCEPT !.interrupt_flag = iflag]}

libyagbe_timer_reset(m) ==
  {[m EXCEPT !.bus.timer = [tac |-> 248, tima |-> 0, tma |-> 0]]}

libyagbe_timer_handle_tac(m, tac) ==
  LET set(x) == {[x EXCEPT !.bus.timer.tac = TacMerge(@, tac)]}
  IN IF ~TacEnabled(m.bus.timer.tac) /\ TacEnabled(tac)
     THEN Then(libyagbe_sched_insert(Note(m, "enabled", TRUE),
                                     TimerEvent(tac)), set)
     ELSE set(m)

(***************************************************************************)
(* sched.c, continued: the step and the callback it invokes.               *)
(***************************************************************************)
\* event.cb_func(event.userdata)
InvokeCallback(m, event) ==
  LET m1 == Note(m, "cbs", m.obs.cbs + 1)
  IN CASE event.cb_func = "handle_timer_update" ->
            handle_timer_update(m1, event.userdata)
       [] event.cb_func = "test_cb" -> test_cb(m1, event.userdata)
       [] OTHER -> {Crash(m1, "fault")}

libyagbe_sched_step(m) ==
  LET m1 == Note([m EXCEPT !.current_timestamp = @ + QUANTUM],
                 "steps", m.obs.steps + 1)
  IN IF m1.heap_size = 0 THEN {m1}
     ELSE IF m1.current_timestamp = find_min(m1)
     THEN Then(extract_min(m1), LAMBDA x : InvokeCallback(x, m1.events[0]))
     ELSE {m1}

(***************************************************************************)
(* bus.c                                                                   *)
(***************************************************************************)
\* A memory array: the cells that are kept one by one, and the byte that every
\* other cell of the array holds.
Uninit(cells, u) == [cells |-> [a \in cells |-> u], rest |-> u]

\* array[i]
Peek(array, i) ==
  IF i \in DOMAIN array.cells THEN array.cells[i] ELSE array.rest

\* array[i] = v
Poke(array, i, v) ==
  IF i \notin DOMAIN array.cells /\ v = array.rest THEN array
  ELSE [array EXCEPT !.cells = [a \in DOMAIN @ \cup {i} |->
                                  IF a = i THEN v ELSE @[a]]]

\* The offsets of each memory array that are kept from the start.
CartCells == {0, 32767}

WramCells == {0, 8191}

HramCells == {0, 119, 126}

VramCells == {0, 8191}

\* The fall-through of the read switch: printf("Unhandled read"), return 0xFF.
UnhandledRead == 255

\* case 0xF of the read switch, (address >> 8) & 0x0F being 0xF: $FF00-$FFFF.
ReadIoPage(b, address) ==
  LET row == (address % 256) \div 16
      offset == address % 16
  IN CASE row = 0 ->
            (CASE offset = LIBYAGBE_TIMER_IO_TIMA -> b.timer.tima
               [] offset = LIBYAGBE_BUS_IO_IF -> b.interrupt_flag
               [] OTHER -> UnhandledRead)
       [] row = 4 ->
            (CASE offset = LIBYAGBE_PPU_IO_LY -> b.ppu.ly
               [] OTHER -> UnhandledRead)
       [] row \in 8..14 -> Peek(b.hram, address - 65408)
       [] row = 15 ->
            (CASE offset \in (0..7) \cup (9..14) -> Peek(b.hram, address - 65408)
               [] offset = 15 -> b.interrupt_enable
               [] OTHER -> UnhandledRead)
       [] OTHER -> UnhandledRead

\* A read switch that mirrors work RAM at $E000-$FDFF.
ReadDecodeEcho(b, address) ==
  LET region == address \div 4096
      page == (address \div 256) % 16
  IN CASE region \in 0..7 -> Peek(b.cart.data, address)
       [] region \in {12, 13} -> Peek(b.wram, address - 49152)
       [] region = 14 -> Peek(b.wram, address - 57344)
       [] region = 15 /\ page = 15 -> ReadIoPage(b, address)
       [] OTHER -> UnhandledRead

\* The switch of libyagbe_bus_read_memory on the bus b.
ReadDecode(b, address) ==
  LET region == address \div 4096
      page == (address \div 256) % 16
  IN CASE region \in 0..7 -> Peek(b.cart.data, address)
       [] region \in {12, 13} -> Peek(b.wram, address - 49152)
       [] region = 15 /\ page = 15 -> ReadIoPage(b, address)
       [] OTHER -> UnhandledRead

\* A read that decodes the address before it steps the scheduler.
bus_read_memory_decode_first(m, address) ==
  LET value == ReadDecode(m.bus, address)
  IN Then(libyagbe_sched_step(m), LAMBDA x : {Note(x, "ret", value)})

\* The scheduler is stepped, then the address is decoded on what the step left.
libyagbe_bus_read_memory(m, address) ==
  Then(libyagbe_sched_step(m),
       LAMBDA x : {Transact(Note(x, "ret", ReadDecode(x.bus, address)),
                            "read", address, ReadDecode(x.bus, address))})

\* What the write switch decides: the bus after a plain store, whether the
\* timer's control handler is to be called, the character put out, and "good".
Stored(b) == [bus |-> b, tac |-> FALSE, putchar |-> -1, good |-> TRUE]

\* good = false
Bad(b) == [Stored(b) EXCEPT !.good = FALSE]

\* case 0xF of the write switch, (address >> 8) & 0x0F being 0xF: $FF00-$FFFF.
WriteIoPage(b, address, data) ==
  LET row == (address % 256) \div 16
      offset == address % 16
  IN CASE row = 0 ->
            (CASE offset = 1 -> [Stored(b) EXCEPT !.putchar = data]
               [] offset = 2 -> Stored(b)
               [] offset = LIBYAGBE_TIMER_IO_TIMA ->
                    Stored([b EXCEPT !.timer.tima = data])
               [] offset = LIBYAGBE_TIMER_IO_TMA ->
                    Stored([b EXCEPT !.timer.tma = data])
               [] offset = LIBYAGBE_TIMER_IO_TAC ->
                    [Stored(b) EXCEPT !.tac = TRUE]
               [] offset = LIBYAGBE_BUS_IO_IF ->
                    Stored([b EXCEPT !.interrupt_flag = data])
               [] OTHER -> Bad(b))
       [] row = 1 -> Bad(b)
       [] row = 2 ->
            (CASE offset = LIBYAGBE_APU_IO_NR50 ->
                    Stored([b EXCEPT !.apu.nr50 = data])
               [] offset = LIBYAGBE_APU_IO_NR51 ->
                    Stored([b EXCEPT !.apu.nr51 = data])
               [] offset = LIBYAGBE_APU_IO_NR52 ->
                    Stored([b EXCEPT !.apu.nr52 = data])
               [] OTHER -> Stored(b))
       [] row = 3 -> Stored(b)
       [] row = 4 ->
            (CASE offset = LIBYAGBE_PPU_IO_LCDC ->
                    Stored([b EXCEPT !.ppu.lcdc = data])
               [] offset = LIBYAGBE_PPU_IO_SCY ->
                    Stored([b EXCEPT !.ppu.scy = data])
               [] offset = LIBYAGBE_PPU_IO_SCX ->
                    Stored([b EXCEPT !.ppu.scx = data])
               [] offset = LIBYAGBE_PPU_IO_BGP ->
                    Stored([b EXCEPT !.ppu.bgp = data])
               [] OTHER -> Bad(b))
       [] row \in 5..7 -> Bad(b)
       [] row \in 8..14 -> Stored([b EXCEPT !.hram = Poke(@, address - 65408, data)])
       [] row = 15 ->
            (CASE offset \in (0..7) \cup (9..14) ->
                    Stored([b EXCEPT !.hram = Poke(@, address - 65408, data)])
               [] offset = LIBYAGBE_BUS_IO_IE ->
                    Stored([b EXCEPT !.interrupt_enable = data])
               [] OTHER -> Bad(b))
       [] OTHER -> Bad(b)

\* A write switch that mirrors work RAM at $E000-$FDFF.
WriteDecodeEcho(b, address, data) ==
  LET region == address \div 4096
      page == (address \div 256) % 16
  IN CASE region \in {8, 9} ->
            Stored([b EXCEPT !.ppu.vram = Poke(@, address - 32768, data)])
       [] region \in {12, 13} ->
            Stored([b EXCEPT !.wram = Poke(@, address - 49152, data)])
       [] region = 14 -> Stored([b EXCEPT !.wram = Poke(@, address - 57344, data)])
       [] region = 15 /\ page = 15 -> WriteIoPage(b, address, data)
       [] OTHER -> Bad(b)

\* The switch of libyagbe_bus_write_memory on the bus b.
WriteDecode(b, address, data) ==
  LET region == address \div 4096
      page == (address \div 256) % 16
  IN CASE region \in {8, 9} ->
            Stored([b EXCEPT !.ppu.vram = Poke(@, address - 32768, data)])
       [] region \in {12, 13} ->
            Stored([b EXCEPT !.wram = Poke(@, address - 49152, data)])
       [] region = 15 /\ page = 15 -> WriteIoPage(b, address, data)
       [] OTHER -> Bad(b)

\* The store (or the timer's control handler), then the step of the scheduler.
libyagbe_bus_write_memory(m, address, data) ==
  LET w == WriteDecode(m.bus, address, data)
      m1 == Transact(Note(Note([m EXCEPT !.bus = w.bus], "good", w.good),
                          "putchar", w.putchar),
                     "write", address, data)
      stored == IF w.tac THEN libyagbe_timer_handle_tac(m1, data) ELSE {m1}
  IN Then(stored, libyagbe_sched_step)

(***************************************************************************)
(* cpu.c, gb.c                                                             *)
(***************************************************************************)
\* A reset that leaves the stack pointer as it finds it.
cpu_reset_keeps_sp(m) ==
  {[m EXCEPT !.cpu.reg = [@ EXCEPT !.a = 1, !.f = 176, !.b = 0, !.c = 19,
                                   !.d = 0, !.e = 216, !.h = 1, !.l = 77,
                                   !.pc = 256]]}

libyagbe_cpu_reset(m) ==
  {[m EXCEPT !.cpu.reg = [a |-> 1, f |-> 176, b |-> 0, c |-> 19, d |-> 0,
                          e |-> 216, h |-> 1, l |-> 77, sp |-> 65534,
                          pc |-> 256]]}

(***************************************************************************)
(* cpu.c                                                                   *)
(***************************************************************************)
LIBYAGBE_CPU_FLAG_Z == 128

LIBYAGBE_CPU_FLAG_N == 64

LIBYAGBE_CPU_FLAG_H == 32

LIBYAGBE_CPU_FLAG_C == 16

\* uint16_t arithmetic
U16(x) == x % 65536

\* uint8_t arithmetic
U8(x) == x % 256

\* x & bit != 0, x | bit, x & ~bit, for a single bit
HasBit(x, bit) == (x \div bit) % 2 = 1

SetBit(x, bit) == IF HasBit(x, bit) THEN x ELSE x + bit

ClearBit(x, bit) == IF HasBit(x, bit) THEN x - bit ELSE x

SetBitIf(x, bit, condition) ==
  IF condition THEN SetBit(x, bit) ELSE ClearBit(x, bit)

\* x ^ y, x | y, x & y on bytes
Bitwise(x, y, op(_, _)) ==
  LET f[i \in 0..8] ==
        IF i = 8 THEN 0
        ELSE (IF op(HasBit(x, 2^i), HasBit(y, 2^i)) THEN 2^i ELSE 0) + f[i + 1]
  IN f[0]

Xor8(x, y) == Bitwise(x, y, LAMBDA p, q : p # q)

Or8(x, y) == Bitwise(x, y, LAMBDA p, q : p \/ q)

And8(x, y) == Bitwise(x, y, LAMBDA p, q : p /\ q)

\* cpu->reg.<r> = v
Reg(m, r, v) == [m EXCEPT !.cpu.reg[r] = v]

\* (cpu->reg.h << 8) | cpu->reg.l, and the like
Pair(m, hi, lo) == m.cpu.reg[hi] * 256 + m.cpu.reg[lo]

\* cpu->reg.<hi> = v >> 8; cpu->reg.<lo> = v & 0x00FF;
SetPair(m, hi, lo, v) == Reg(Reg(m, hi, v \div 256), lo, v % 256)

\* cpu->reg.pc + n as a uint16_t address
Pc(m, n) == U16(m.cpu.reg.pc + n)

\* cpu->reg.pc += n; return cycles;
Done(m, n, cycles) ==
  {Note([m EXCEPT !.cpu.reg.pc = U16(@ + n)], "cycles", cycles)}

\* <r> = libyagbe_bus_read_memory(bus, address)
ReadInto(m, address, r) ==
  Then(libyagbe_bus_read_memory(m, address),
       LAMBDA x : {Reg(x, r, x.obs.ret)})

\* Two reads in a row: the machine after both, and the two values.
ReadTwo(m, first, second) ==
  UNION {{[m |-> y, lo |-> x.obs.ret, hi |-> y.obs.ret] :
            y \in IF x.crashed = "no"
                  THEN libyagbe_bus_read_memory(x, second) ELSE {x}} :
         x \in libyagbe_bus_read_memory(m, first)}

\* lo = read(pc + 1); hi = read(pc + 2);
ReadImm16(m) == ReadTwo(m, Pc(m, 1), Pc(m, 2))

\* lo = read(sp++); hi = read(sp++);
PopTwo(m) ==
  {[p EXCEPT !.m.cpu.reg.sp = U16(m.cpu.reg.sp + 2)] :
     p \in ReadTwo(m, m.cpu.reg.sp, U16(m.cpu.reg.sp + 1))}

\* write(--sp, lo); write(--sp, hi);
PushTwoLowFirst(m, hi, lo) ==
  LET sp1 == U16(m.cpu.reg.sp + 65535)
      sp2 == U16(m.cpu.reg.sp + 65534)
  IN Then(libyagbe_bus_write_memory(Reg(m, "sp", sp1), sp1, lo),
          LAMBDA x : libyagbe_bus_write_memory(Reg(x, "sp", sp2), sp2, hi))

\* write(--sp, hi); write(--sp, lo);
PushTwo(m, hi, lo) ==
  LET sp1 == U16(m.cpu.reg.sp + 65535)
      sp2 == U16(m.cpu.reg.sp + 65534)
  IN Then(libyagbe_bus_write_memory(Reg(m, "sp", sp1), sp1, hi),
          LAMBDA x : libyagbe_bus_write_memory(Reg(x, "sp", sp2), sp2, lo))

\* The rest of an instruction, run on every outcome that has not aborted.
After(P, f(_)) == UNION {IF p.m.crashed = "no" THEN f(p) ELSE {p.m} : p \in P}

alu_srl(m, reg) ==
  LET f1 == ClearBit(ClearBit(m.cpu.reg.f, LIBYAGBE_CPU_FLAG_N),
                     LIBYAGBE_CPU_FLAG_H)
      f2 == SetBitIf(f1, LIBYAGBE_CPU_FLAG_C, reg % 2 # 0)
      value == reg \div 2
  IN [m |-> Reg(m, "f", SetBitIf(f2, LIBYAGBE_CPU_FLAG_Z, value = 0)),
      value |-> value]

alu_rr(m, reg, flag) ==
  LET f1 == ClearBit(ClearBit(m.cpu.reg.f, LIBYAGBE_CPU_FLAG_N),
                     LIBYAGBE_CPU_FLAG_H)
      old_carry_flag_value ==
        IF HasBit(f1, LIBYAGBE_CPU_FLAG_C) THEN 128 ELSE 0
      f2 == SetBitIf(f1, LIBYAGBE_CPU_FLAG_C, reg % 2 # 0)
      value == reg \div 2 + old_carry_flag_value
  IN IF flag = "ALU_CLEAR_ZERO"
     THEN [m |-> Reg(m, "f", ClearBit(f2, LIBYAGBE_CPU_FLAG_Z)),
           value |-> value]
     ELSE [m |-> Reg(m, "f", SetBitIf(f2, LIBYAGBE_CPU_FLAG_Z, value = 0)),
           value |-> value]

alu_add(m, addend, flag) ==
  LET f1 == ClearBit(m.cpu.reg.f, LIBYAGBE_CPU_FLAG_N)
      sum == m.cpu.reg.a + addend
             + (IF flag = "ALU_WITH_CARRY" /\ HasBit(f1, LIBYAGBE_CPU_FLAG_C)
                THEN 1 ELSE 0)
      s == U8(sum)
      f2 == SetBitIf(f1, LIBYAGBE_CPU_FLAG_Z, s = 0)
      f3 == SetBitIf(f2, LIBYAGBE_CPU_FLAG_C, sum > 255)
  IN Reg(Reg(m, "f", f3), "a", s)

alu_add_hl(m, hi, lo) ==
  LET f1 == ClearBit(m.cpu.reg.f, LIBYAGBE_CPU_FLAG_N)
      sum == Pair(m, "h", "l") + (hi * 256 + lo)
      f2 == SetBitIf(f1, LIBYAGBE_CPU_FLAG_C, sum > 65535)
  IN SetPair(Reg(m, "f", f2), "h", "l", U16(sum))

alu_sub(m, subtrahend, flag) ==
  LET diff == U8(m.cpu.reg.a + 256 - subtrahend)
      f1 == SetBitIf(m.cpu.reg.f, LIBYAGBE_CPU_FLAG_Z, diff = 0)
      f2 == SetBitIf(f1, LIBYAGBE_CPU_FLAG_C, subtrahend > m.cpu.reg.a)
  IN IF flag # "ALU_DISCARD_RESULT"
     THEN Reg(Reg(m, "f", f2), "a", diff)
     ELSE Reg(m, "f", f2)

alu_inc(m, value) ==
  LET f1 == ClearBit(m.cpu.reg.f, LIBYAGBE_CPU_FLAG_N)
      v == U8(value + 1)
  IN [m |-> Reg(m, "f", SetBitIf(f1, LIBYAGBE_CPU_FLAG_Z, v = 0)),
      value |-> v]

alu_dec(m, value) ==
  LET f1 == SetBit(m.cpu.reg.f, LIBYAGBE_CPU_FLAG_N)
      v == U8(value + 255)
  IN [m |-> Reg(m, "f", SetBitIf(f1, LIBYAGBE_CPU_FLAG_Z, v = 0)),
      value |-> v]

call_if(m, condition_met) ==
  IF condition_met
  THEN After(ReadImm16(m),
             LAMBDA p :
               LET pc == Pc(p.m, 3)
               IN Then(PushTwo(Reg(p.m, "pc", pc), pc \div 256, pc % 256),
                       LAMBDA x : {Reg(x, "pc", p.hi * 256 + p.lo)}))
  ELSE {Reg(m, "pc", Pc(m, 3))}

jr_if(m, condition_met) ==
  IF condition_met
  THEN Then(libyagbe_bus_read_memory(m, Pc(m, 1)),
            LAMBDA x :
              LET imm == IF x.obs.ret >= 128 THEN x.obs.ret - 256
                         ELSE x.obs.ret
              IN {Reg(x, "pc", U16(x.cpu.reg.pc + 65536 + imm + 2))})
  ELSE {Reg(m, "pc", Pc(m, 2))}

jp_if(m, condition_met) ==
  IF condition_met
  THEN After(ReadImm16(m), LAMBDA p : {Reg(p.m, "pc", p.hi * 256 + p.lo)})
  ELSE {Reg(m, "pc", Pc(m, 3))}

ret_if(m, condition_met) ==
  IF condition_met
  THEN After(PopTwo(m), LAMBDA p : {Reg(p.m, "pc", p.hi * 256 + p.lo)})
  ELSE {Reg(m, "pc", Pc(m, 1))}

\* r = alu_inc(cpu, r); pc++; return 4;   and the same with alu_dec
IncReg(m, r) ==
  LET res == alu_inc(m, m.cpu.reg[r]) IN Done(Reg(res.m, r, res.value), 1, 4)

DecReg(m, r) ==
  LET res == alu_dec(m, m.cpu.reg[r]) IN Done(Reg(res.m, r, res.value), 1, 4)

\* r = libyagbe_bus_read_memory(bus, pc + 1); pc += 2; return 4;
LdRegImm8(m, r) ==
  Then(ReadInto(m, Pc(m, 1), r), LAMBDA x : Done(x, 2, 4))

\* lo = read(pc + 1); hi = read(pc + 2); pc += 3; return 4;
LdPairImm16(m, hi, lo) ==
  Then(Then(ReadInto(m, Pc(m, 1), lo), LAMBDA x : ReadInto(x, Pc(x, 2), hi)),
       LAMBDA x : Done(x, 3, 4))

\* r = libyagbe_bus_read_memory(bus, address); pc++; return 4;
LdRegMem(m, r, address) ==
  Then(ReadInto(m, address, r), LAMBDA x : Done(x, 1, 4))

\* libyagbe_bus_write_memory(bus, address, value); pc++; return 4;
LdMemReg(m, address, value) ==
  Then(libyagbe_bus_write_memory(m, address, value), LAMBDA x : Done(x, 1, 4))

\* dst = src; pc++; return 4;
LdRegReg(m, dst, src) == Done(Reg(m, dst, m.cpu.reg[src]), 1, 4)

\* a = value; f = (a == 0) ? zero : nonzero; pc += n; return 4;
Logic(m, value, zero, nonzero, n) ==
  Done(Reg(Reg(m, "a", value), "f", IF value = 0 THEN zero ELSE nonzero), n, 4)

\* lo = read(sp++); hi = read(sp++); pc++; return 4;
PopPair(m, hi, lo) ==
  After(PopTwo(m),
        LAMBDA p : Done(Reg(Reg(p.m, lo, p.lo), hi, p.hi), 1, 4))

\* case LIBYAGBE_CPU_OP_POP_AF, with the low nibble of F left as popped
PopAFUnmasked(m) == PopPair(m, "a", "f")

\* case LIBYAGBE_CPU_OP_POP_AF
PopAF(m) ==
  After(PopTwo(m),
        LAMBDA p : Done(Reg(Reg(p.m, "f", (p.lo \div 16) * 16), "a", p.hi),
                        1, 4))

\* write(--sp, hi); write(--sp, lo); pc++; return 4;
PushPair(m, hi, lo) ==
  Then(PushTwo(m, m.cpu.reg[hi], m.cpu.reg[lo]), LAMBDA x : Done(x, 1, 4))

\* The extended opcodes: switch (libyagbe_bus_read_memory(bus, pc + 1)).
ExecuteCB(m, op) ==
  CASE op = 25 -> \* RR_C
         LET res == alu_rr(m, m.cpu.reg.c, "ALU_NORMAL")
         IN Done(Reg(res.m, "c", res.value), 2, 4)
    [] op = 26 -> \* RR_D
         LET res == alu_rr(m, m.cpu.reg.d, "ALU_NORMAL")
         IN Done(Reg(res.m, "d", res.value), 2, 4)
    [] op = 56 -> \* SRL_B
         LET res == alu_srl(m, m.cpu.reg.b)
         IN Done(Reg(res.m, "b", res.value), 2, 4)
    [] op = 55 -> \* SWAP_A
         Logic(m, (m.cpu.reg.a % 16) * 16 + m.cpu.reg.a \div 16, 128, 0, 2)
    [] OTHER -> Done(m, 0, 0)

\* An unconditional jump that returns 4, as the conditional ones do.
JpImm16Short(m) == Then(jp_if(m, TRUE), LAMBDA x : Done(x, 0, 4))

\* case LIBYAGBE_CPU_OP_JP_IMM16
JpImm16(m) == Then(jp_if(m, TRUE), LAMBDA x : Done(x, 0, 16))

\* switch (cpu->instruction)
Execute(m) ==
  LET op == m.cpu.instruction
      r == m.cpu.reg
      Z == HasBit(r.f, LIBYAGBE_CPU_FLAG_Z)
      C == HasBit(r.f, LIBYAGBE_CPU_FLAG_C)
      hl == Pair(m, "h", "l")
      de == Pair(m, "d", "e")
  IN CASE op = 0 -> Done(m, 1, 4)                                  \* NOP
       [] op = 1 -> LdPairImm16(m, "b", "c")                       \* LD_BC_IMM16
       [] op = 3 ->                                                \* INC_BC
            Done(SetPair(m, "b", "c", U16(Pair(m, "b", "c") + 1)), 1, 4)
       [] op = 4 -> IncReg(m, "b")
       [] op = 5 -> DecReg(m, "b")
       [] op = 6 -> LdRegImm8(m, "b")
       [] op = 12 -> IncReg(m, "c")
       [] op = 13 -> DecReg(m, "c")
       [] op = 14 -> LdRegImm8(m, "c")
       [] op = 17 -> LdPairImm16(m, "d", "e")                      \* LD_DE_IMM16
       [] op = 18 -> LdMemReg(m, de, r.a)                          \* LD_MEM_DE_A
       [] op = 19 ->                                               \* INC_DE
            \* de++; cpu->reg.h = de >> 8; cpu->reg.l = de & 0x00FF;
            Done(SetPair(m, "h", "l", U16(de + 1)), 1, 4)
       [] op = 20 -> IncReg(m, "d")
       [] op = 24 -> Then(jr_if(m, TRUE), LAMBDA x : Done(x, 0, 4)) \* JR_SIMM8
       [] op = 26 -> LdRegMem(m, "a", de)                          \* LD_A_MEM_DE
       [] op = 28 -> IncReg(m, "e")
       [] op = 29 -> DecReg(m, "e")
       [] op = 31 ->                                               \* RRA
            LET res == alu_rr(m, r.a, "ALU_CLEAR_ZERO")
            IN Done(Reg(res.m, "a", res.value), 1, 4)
       [] op = 32 -> Then(jr_if(m, ~Z), LAMBDA x : Done(x, 0, 4))  \* JR_NZ_SIMM8
       [] op = 33 -> LdPairImm16(m, "h", "l")                      \* LD_HL_IMM16
       [] op = 34 ->                                               \* LDI_MEM_HL_A
            Then(libyagbe_bus_write_memory(m, hl, r.a),
                 LAMBDA x : Done(SetPair(x, "h", "l", U16(hl + 1)), 1, 4))
       [] op = 35 -> Done(SetPair(m, "h", "l", U16(hl + 1)), 1, 4) \* INC_HL
       [] op = 36 -> IncReg(m, "h")
       [] op = 37 -> DecReg(m, "h")
       [] op = 38 -> LdRegImm8(m, "h")
       [] op = 39 -> Done(m, 1, 4)                                 \* DAA
       [] op = 40 -> Then(jr_if(m, Z), LAMBDA x : Done(x, 0, 4))   \* JR_Z_SIMM8
       [] op = 41 -> Done(alu_add_hl(m, r.h, r.l), 1, 4)           \* ADD_HL_HL
       [] op = 42 ->                                               \* LDI_A_MEM_HL
            Then(ReadInto(m, hl, "a"),
                 LAMBDA x : Done(SetPair(x, "h", "l", U16(hl + 1)), 1, 4))
       [] op = 44 -> IncReg(m, "l")
       [] op = 45 -> DecReg(m, "l")
       [] op = 47 -> Done(Reg(m, "a", 255 - r.a), 1, 4)            \* CPL
       [] op = 48 -> Then(jr_if(m, ~C), LAMBDA x : Done(x, 0, 4))  \* JR_NC_SIMM8
       [] op = 49 ->                                               \* LD_SP_IMM16
            After(ReadImm16(m),
                  LAMBDA p : Done(Reg(p.m, "sp", p.hi * 256 + p.lo), 3, 4))
       [] op = 50 ->                                               \* LDD_HL_A
            Then(libyagbe_bus_write_memory(m, hl, r.a),
                 LAMBDA x : Done(SetPair(x, "h", "l", U16(hl + 65535)), 1, 4))
       [] op = 53 ->                                               \* DEC_MEM_HL
            Then(libyagbe_bus_read_memory(m, hl),
                 LAMBDA x :
                   LET res == alu_dec(x, x.obs.ret)
                   IN Then(libyagbe_bus_write_memory(res.m, hl, res.value),
                           LAMBDA y : Done(y, 1, 4)))
       [] op = 56 -> Then(jr_if(m, C), LAMBDA x : Done(x, 0, 4))   \* JR_C_SIMM8
       [] op = 60 -> IncReg(m, "a")
       [] op = 61 -> DecReg(m, "a")
       [] op = 62 -> LdRegImm8(m, "a")
       [] op = 70 -> LdRegMem(m, "b", hl)
       [] op = 71 -> LdRegReg(m, "b", "a")
       [] op = 78 -> LdRegMem(m, "c", hl)
       [] op = 79 -> LdRegReg(m, "c", "a")
       [] op = 86 -> LdRegMem(m, "d", hl)
       [] op = 87 -> LdRegReg(m, "d", "a")
       [] op = 95 -> LdRegReg(m, "e", "a")
       [] op = 103 -> LdRegReg(m, "h", "a")
       [] op = 110 -> LdRegMem(m, "l", hl)
       [] op = 111 -> LdRegReg(m, "l", "a")
       [] op = 112 -> LdMemReg(m, hl, r.b)
       [] op = 113 -> LdMemReg(m, hl, r.c)
       [] op = 114 -> LdMemReg(m, hl, r.d)
       [] op = 119 -> LdMemReg(m, hl, r.a)
       [] op = 120 -> LdRegReg(m, "a", "b")
       [] op = 121 -> LdRegReg(m, "a", "c")
       [] op = 122 -> LdRegReg(m, "a", "d")
       [] op = 123 -> LdRegReg(m, "a", "e")
       [] op = 124 -> LdRegReg(m, "a", "h")
       [] op = 125 -> LdRegReg(m, "a", "l")
       [] op = 126 -> LdRegMem(m, "a", hl)
       [] op = 169 -> Logic(m, Xor8(r.a, r.c), 128, 0, 1)          \* XOR_C
       [] op = 174 ->                                              \* XOR_MEM_HL
            Then(libyagbe_bus_read_memory(m, hl),
                 LAMBDA x : Logic(x, Xor8(r.a, x.obs.ret), 128, 0, 1))
       [] op = 177 -> Logic(m, Or8(r.a, r.c), 128, 0, 1)           \* OR_C
       [] op = 182 ->                                              \* OR_MEM_HL
            Then(libyagbe_bus_read_memory(m, hl),
                 LAMBDA x : Logic(x, Or8(r.a, x.obs.ret), 160, 32, 1))
       [] op = 183 -> Logic(m, r.a, 128, 0, 1)                     \* OR_A
       [] op = 187 ->                                              \* CP_E
            Done(alu_sub(m, r.e, "ALU_DISCARD_RESULT"), 1, 4)
       [] op = 193 -> PopPair(m, "b", "c")                         \* POP_BC
       [] op = 194 -> Then(jp_if(m, ~Z), LAMBDA x : Done(x, 0, 4)) \* JP_NZ_IMM16
       [] op = 195 -> JpImm16(m)                                   \* JP_IMM16
       [] op = 196 ->                                              \* CALL_NZ_IMM16
            Then(call_if(m, ~Z), LAMBDA x : Done(x, 0, 16))
       [] op = 197 -> PushPair(m, "b", "c")                        \* PUSH_BC
       [] op = 198 ->                                              \* ADD_A_IMM8
            Then(libyagbe_bus_read_memory(m, Pc(m, 1)),
                 LAMBDA x : Done(alu_add(x, x.obs.ret, "ALU_NORMAL"), 2, 4))
       [] op = 200 -> Then(ret_if(m, Z), LAMBDA x : Done(x, 0, 4)) \* RET_Z
       [] op = 201 -> Then(ret_if(m, TRUE), LAMBDA x : Done(x, 0, 4)) \* RET
       [] op = 203 ->                                              \* PREFIX_CB
            Then(libyagbe_bus_read_memory(m, Pc(m, 1)),
                 LAMBDA x : ExecuteCB(x, x.obs.ret))
       [] op = 205 ->                                              \* CALL_IMM16
            Then(call_if(m, TRUE), LAMBDA x : Done(x, 0, 16))
       [] op = 206 ->                                              \* ADC_A_IMM8
            Then(libyagbe_bus_read_memory(m, Pc(m, 1)),
                 LAMBDA x : Done(alu_add(x, x.obs.ret, "ALU_WITH_CARRY"), 2, 4))
       [] op = 208 -> Then(ret_if(m, ~C), LAMBDA x : Done(x, 0, 4)) \* RET_NC
       [] op = 209 -> PopPair(m, "d", "e")                         \* POP_DE
       [] op = 213 -> PushPair(m, "d", "e")                        \* PUSH_DE
       [] op = 214 ->                                              \* SUB_IMM8
            Then(libyagbe_bus_read_memory(m, Pc(m, 1)),
                 LAMBDA x : Done(alu_sub(x, x.obs.ret, "ALU_NORMAL"), 2, 4))
       [] op = 216 -> Then(ret_if(m, C), LAMBDA x : Done(x, 0, 4)) \* RET_C
       [] op = 224 ->                                              \* LDH_IMM8_A
            Then(libyagbe_bus_read_memory(m, Pc(m, 1)),
                 LAMBDA x :
                   Then(libyagbe_bus_write_memory(x, 65280 + x.obs.ret, r.a),
                        LAMBDA y : Done(y, 2, 4)))
       [] op = 225 -> PopPair(m, "h", "l")                         \* POP_HL
       [] op = 229 -> PushPair(m, "h", "l")                        \* PUSH_HL
       [] op = 230 ->                                              \* AND_IMM8
            Then(libyagbe_bus_read_memory(m, Pc(m, 1)),
                 LAMBDA x : Logic(x, And8(r.a, x.obs.ret), 160, 32, 2))
       [] op = 233 -> Done(Reg(m, "pc", hl), 0, 4)                 \* JP_HL
       [] op = 234 ->                                              \* LD_MEM_IMM16_A
            After(ReadImm16(m),
                  LAMBDA p :
                    Then(libyagbe_bus_write_memory(p.m, p.hi * 256 + p.lo, r.a),
                         LAMBDA x : Done(x, 3, 4)))
       [] op = 238 ->                                              \* XOR_IMM8
            Then(libyagbe_bus_read_memory(m, Pc(m, 1)),
                 LAMBDA x : Logic(x, Xor8(r.a, x.obs.ret), 128, 0, 2))
       [] op = 240 ->                                              \* LDH_A_IMM8
            Then(libyagbe_bus_read_memory(m, Pc(m, 1)),
                 LAMBDA x :
                   Then(ReadInto(x, 65280 + x.obs.ret, "a"),
                        LAMBDA y : Done(y, 2, 4)))
       [] op = 241 -> PopAF(m)                                     \* POP_AF
       [] op = 243 -> Done(m, 1, 4)                                \* DI
       [] op = 245 -> PushPair(m, "a", "f")                        \* PUSH_AF
       [] op = 250 ->                                              \* LD_A_MEM_IMM16
            After(ReadImm16(m),
                  LAMBDA p :
                    Then(ReadInto(p.m, p.hi * 256 + p.lo, "a"),
                         LAMBDA x : Done(x, 3, 4)))
       [] op = 254 ->                                              \* CP_IMM8
            Then(libyagbe_bus_read_memory(m, Pc(m, 1)),
                 LAMBDA x :
                   Done(alu_sub(x, x.obs.ret, "ALU_DISCARD_RESULT"), 2, 4))
       [] OTHER -> Done(m, 0, 0)

\* The case labels of the switch of libyagbe_cpu_step and of its inner switch.
MainTable ==
  {0, 1, 3, 4, 5, 6, 12, 13, 14, 17, 18, 19, 20, 24, 26, 28, 29, 31, 32, 33,
   34, 35, 36, 37, 38, 39, 40, 41, 42, 44, 45, 47, 48, 49, 50, 53, 56, 60, 61,
   62, 70, 71, 78, 79, 86, 87, 95, 103, 110, 111, 112, 113, 114, 119, 120,
   121, 122, 123, 124, 125, 126, 169, 174, 177, 182, 183, 187, 193, 194, 195,
   196, 197, 198, 200, 201, 203, 205, 206, 208, 209, 213, 214, 216, 224, 225,
   229, 230, 233, 234, 238, 240, 241, 243, 245, 250, 254}

CbTable == {25, 26, 55, 56}

\* cpu->instruction = libyagbe_bus_read_memory(bus, cpu->reg.pc);
Fetch(m) ==
  Then(libyagbe_bus_read_memory(m, m.cpu.reg.pc),
       LAMBDA x : {[x EXCEPT !.cpu.instruction = x.obs.ret]})

libyagbe_cpu_step(m) == Then(Fetch(m), Execute)

libyagbe_system_reset(m) == libyagbe_cpu_reset(m)

\* gb->bus.cart.data = cart_data; libyagbe_system_reset(gb);
libyagbe_system_init(m, cart_data) ==
  libyagbe_system_reset([m EXCEPT !.bus.cart.data = cart_data])

\* return libyagbe_cpu_step(&gb->cpu, &gb->bus);
libyagbe_system_step(m) == libyagbe_cpu_step(m)

(***************************************************************************)
(* The state machine.                                                      *)
(***************************************************************************)
\* The bytes an object that was never initialised is taken to hold.
UninitBytes == {0, 255}

\* The cartridge image handed to libyagbe_system_init.
RomImage == [cells |-> [a \in CartCells |-> a % 256], rest |-> 0]

\* struct libyagbe_system gb; with every byte of it u.
UninitBus(u) ==
  [apu |-> [nr50 |-> u, nr51 |-> u, nr52 |-> u],
   cart |-> [data |-> Uninit(CartCells, u)],
   timer |-> [tac |-> u, tima |-> u, tma |-> u],
   ppu |-> [lcdc |-> u, scy |-> u, scx |-> u, ly |-> u, bgp |-> u,
            vram |-> Uninit(VramCells, u)],
   wram |-> Uninit(WramCells, u),
   hram |-> Uninit(HramCells, u),
   interrupt_flag |-> u,
   interrupt_enable |-> u]

UninitCpu(u) ==
  [reg |-> [a |-> u, f |-> u, b |-> u, c |-> u, d |-> u, e |-> u, h |-> u,
            l |-> u, sp |-> u * 257, pc |-> u * 257],
   instruction |-> u]

\* No control write has started the timer, or the counter or the control
\* register has been written since.
NoRun == [t |-> -1, k |-> 0, tima |-> 0]

\* The observation of an operation that is about to start.
NewObs(m, op, address, data) ==
  [op |-> op, address |-> address, data |-> data, ret |-> -1,
   t0 |-> m.current_timestamp, h0 |-> m.heap_size, steps |-> 0, cbs |-> 0,
   oob |-> FALSE, dead |-> FALSE, null |-> FALSE, swaps |-> 0, good |-> TRUE,
   putchar |-> -1, enabled |-> FALSE, wrapped |-> FALSE, cycles |-> -1,
   on |-> "gb", timer |-> "none", trace |-> <<>>, run |-> m.obs.run]

StartOp(m, op, address, data) ==
  [m EXCEPT !.obs = NewObs(m, op, address, data)]

\* The statics of sched.c and timer.c at program start, and the system object
\* after libyagbe_system_init.
Boot(u, image) ==
  LET m0 == [current_timestamp |-> 0, heap_size |-> 0,
             events |-> [i \in SlotIndex |-> ZeroEvent],
             interrupt_flag |-> "NULL", bus |-> UninitBus(u),
             cpu |-> UninitCpu(u),
             other |-> [bus |-> UninitBus(u), cpu |-> UninitCpu(u)],
             crashed |-> "no", asked |-> {},
             fired |-> {},
             obs |-> [run |-> NoRun]]
  IN libyagbe_system_init(StartOp(m0, "system_init", -1, -1), image)

InitMachine(u) == Boot(u, RomImage)

Init == \E u \in UninitBytes : \E m \in InitMachine(u) : Is(m)

Running(limit) == crashed = "no" /\ current_timestamp < limit

----------------------------------------------------------------------------
(* The scheduler driven by a client of its three functions.                *)

\* The delays the client asks for.
Delays == {4, 8}

\* The client's event: its userdata says what was asked for, and when.
ClientEvent(m, d) ==
  [expiry_time |-> d, cb_func |-> "test_cb",
   userdata |-> [d |-> d, t |-> m.current_timestamp, n |-> m.heap_size]]

DoInsert(d) ==
  LET event == ClientEvent(Machine, d)
  IN \E m \in libyagbe_sched_insert(StartOp(Machine, "insert", -1, d), event) :
       Becomes([m EXCEPT !.asked = @ \cup {event.userdata}])

DoStep == \E m \in libyagbe_sched_step(StartOp(Machine, "step", -1, -1)) :
            Becomes(m)

DoReset ==
  \E m \in libyagbe_sched_reset(StartOp(Machine, "reset", -1, -1)) :
    Becomes([m EXCEPT !.asked = {}, !.fired = {}])

SchedInsert ==
  /\ Running(MaxTime) /\ heap_size < MaxInserts
  /\ \E d \in Delays : DoInsert(d)

SchedStep == Running(MaxTime) /\ DoStep

SchedReset == Running(MaxTime) /\ current_timestamp > 0 /\ DoReset

Next == SchedInsert \/ SchedStep \/ SchedReset

Spec == Init /\ [][Next]_vars

----------------------------------------------------------------------------
(* The same client inserting events that all expire at different times.    *)

DistinctDelays == {4, 8, 12}

DistinctInsert ==
  /\ Running(MaxTime) /\ heap_size < MaxInserts
  /\ \E d \in DistinctDelays :
       /\ \A u \in asked : u.t + u.d # current_timestamp + d
       /\ DoInsert(d)

DistinctStep == Running(MaxTime) /\ DoStep

NextDistinct == DistinctInsert \/ DistinctStep

SpecDistinct == Init /\ [][NextDistinct]_vars

----------------------------------------------------------------------------
(* The same client a long time after the start: the timestamp has been     *)
(* stepped, with no event pending, to just below the largest value of an   *)
(* unsigned int.                                                           *)

LateTimes == {UINT_MOD - 16, UINT_MOD - 8}

InitLate ==
  \E u \in UninitBytes, t \in LateTimes : \E m \in InitMachine(u) :
    Is(StartOp([m EXCEPT !.current_timestamp = t], "step", -1, -1))

LateInsert ==
  /\ Running(LateMaxTime) /\ heap_size < LateMaxInserts
  /\ \E d \in DistinctDelays :
       /\ \A u \in asked : u.t + u.d # current_timestamp + d
       /\ DoInsert(d)

LateStep == Running(LateMaxTime) /\ DoStep

NextLate == LateInsert \/ LateStep

SpecLate == InitLate /\ [][NextLate]_vars

----------------------------------------------------------------------------
(* The same client filling the heap.                                       *)

CapDelays == {1024}

CapInsert ==
  /\ Running(CapMaxTime) /\ heap_size < CapMaxInserts
  /\ \E d \in CapDelays : DoInsert(d)

CapStep == Running(CapMaxTime) /\ DoStep

NextCap == CapInsert \/ CapStep

SpecCap == Init /\ [][NextCap]_vars

----------------------------------------------------------------------------
(* The emulated program driving the bus.                                   *)

\* The bus addresses of the timer's registers and of the interrupt flags.
ADDR_TIMA == 65285

ADDR_TMA == 65286

ADDR_TAC == 65287

ADDR_IF == 65295

\* The run of the timer that the access starts, ends or leaves alone: a
\* control write that sets the enable bit from clear starts one at the
\* timestamp of the call; any other write of the control register or of the
\* counter ends it, and so does a store through the null interrupt_flag.
RunAfter(m) ==
  IF m.obs.null THEN NoRun
  ELSE IF m.obs.enabled
  THEN [t |-> m.obs.t0, k |-> m.obs.data % 4, tima |-> bus.timer.tima]
  ELSE IF m.obs.op = "write" /\ m.obs.address \in {ADDR_TAC, ADDR_TIMA}
  THEN NoRun
  ELSE m.obs.run

DoRead(address) ==
  \E m \in libyagbe_bus_read_memory(StartOp(Machine, "read", address, -1),
                                    address) : 
    Becomes(Note(m, "run", RunAfter(m)))

DoWrite(address, data) ==
  \E m \in libyagbe_bus_write_memory(StartOp(Machine, "write", address, data),
                                     address, data) :
    Becomes(Note(m, "run", RunAfter(m)))

DoSystemReset ==
  \E m \in libyagbe_system_reset(StartOp(Machine, "system_reset", -1, -1)) :
    Becomes(m)

DoSetInterruptFlag ==
  \E m \in libyagbe_timer_set_interrupt_flag(
             StartOp(Machine, "set_interrupt_flag", -1, -1), "bus") :
    Becomes(m)

\* The timer runs: control writes that stop the timer and start it with
\* clock-select 0 and 1, and a counter write that makes the next tick overflow.
TimerWrites == {<<ADDR_TAC, 0>>, <<ADDR_TAC, 4>>, <<ADDR_TAC, 5>>, <<ADDR_TIMA, 255>>}

TimerReads == {ADDR_TIMA, ADDR_IF}

TimerWrite ==
  /\ Running(TimerMaxTime)
  /\ \E w \in TimerWrites : DoWrite(w[1], w[2])

TimerRead ==
  /\ Running(TimerMaxTime)
  /\ \E address \in TimerReads : DoRead(address)

TimerSystemReset ==
  /\ Running(TimerMaxTime) /\ obs.op # "system_reset" /\ DoSystemReset

TimerSetInterruptFlag ==
  /\ Running(TimerMaxTime) /\ interrupt_flag = "NULL" /\ DoSetInterruptFlag

NextTimer ==
  TimerWrite \/ TimerRead \/ TimerSystemReset \/ TimerSetInterruptFlag

SpecTimer == Init /\ [][NextTimer]_vars

----------------------------------------------------------------------------
(* The emulated program writing nothing but the timer's control register:  *)
(* it stops the timer and starts it with clock-select 0.                   *)

TacWrites == {<<ADDR_TAC, 0>>, <<ADDR_TAC, 4>>}

TacWrite ==
  /\ Running(TacMaxTime)
  /\ \E w \in TacWrites : DoWrite(w[1], w[2])

NextTac == TacWrite

SpecTac == Init /\ [][NextTac]_vars

----------------------------------------------------------------------------
(* The emulated program reading and writing mapped and unmapped addresses, *)
(* with the timer running.                                                 *)

\* Cartridge ROM, VRAM, external RAM, work RAM, echo RAM, OAM, the divider
\* register and the hole of the high RAM map.
ADDR_ROM == 0

ADDR_VRAM == 32768

ADDR_EXTRAM == 40960

ADDR_WRAM == 49152

ADDR_ECHO == 57344

ADDR_OAM == 65024

ADDR_DIV == 65284

ADDR_HOLE == 65528

BusReads ==
  {ADDR_ROM, ADDR_VRAM, ADDR_EXTRAM, ADDR_WRAM, ADDR_ECHO, ADDR_OAM, ADDR_DIV,
   ADDR_HOLE, ADDR_TIMA, ADDR_TMA}

BusWrites ==
  {<<ADDR_TAC, 5>>, <<ADDR_TIMA, 255>>, <<ADDR_WRAM, 165>>}
  \cup {<<a, 165>> : a \in {ADDR_ROM, ADDR_EXTRAM, ADDR_ECHO, ADDR_OAM,
                            ADDR_DIV, ADDR_HOLE}}

BusRead ==
  /\ Running(BusMaxTime)
  /\ \E address \in BusReads : DoRead(address)

BusWrite ==
  /\ Running(BusMaxTime)
  /\ \E w \in BusWrites : DoWrite(w[1], w[2])

NextBus == BusRead \/ BusWrite

SpecBus == Init /\ [][NextBus]_vars

----------------------------------------------------------------------------
(* The emulator of main.c running a cartridge: libyagbe_system_init, then   *)
(* libyagbe_system_step until a step returns 0.  The cartridge holds a      *)
(* program at $0100, where the reset leaves PC, and zeroes elsewhere.       *)

\* The opcodes the programs are written in (enum main_opcodes).
OP_LD_BC_IMM16 == 1

OP_INC_B == 4

OP_INC_C == 12

OP_LD_DE_IMM16 == 17

OP_INC_D == 20

OP_INC_E == 28

OP_LD_HL_IMM16 == 33

OP_INC_H == 36

OP_INC_L == 44

OP_LD_SP_IMM16 == 49

OP_INC_A == 60

OP_LD_A_IMM8 == 62

OP_OR_A == 183

OP_POP_BC == 193

OP_JP_IMM16 == 195

OP_PUSH_BC == 197

OP_PREFIX_CB == 203

OP_POP_DE == 209

OP_PUSH_DE == 213

OP_LDH_IMM8_A == 224

OP_POP_HL == 225

OP_PUSH_HL == 229

OP_POP_AF == 241

OP_PUSH_AF == 245

OP_ADD_A_IMM8 == 198

OP_ADC_A_IMM8 == 206

OP_SUB_IMM8 == 214

OP_SBC_A_IMM8 == 222

OP_CP_IMM8 == 254

OP_ADD_SP_SIMM8 == 232

OP_LD_HL_SP_SIMM8 == 248

\* The bytes the programs use as operands.
Operands == {0, 15, 16, 255}

JumpBytes == {0, 18, 52, 255}

\* One instruction, every byte of the main table, and every extended opcode.
SingleOps == {<<op>> : op \in 0..255}

ExtendedOps == {<<OP_PREFIX_CB, op>> : op \in 0..255}

Jumps == {<<OP_JP_IMM16, lo, hi>> : lo \in JumpBytes, hi \in JumpBytes}

\* A register is loaded with v and incremented, after OR A has cleared the
\* flags or with the flags of the reset.
IncOf ==
  {<<OP_LD_BC_IMM16, OP_INC_B>>, <<OP_LD_BC_IMM16, OP_INC_C>>,
   <<OP_LD_DE_IMM16, OP_INC_D>>, <<OP_LD_DE_IMM16, OP_INC_E>>,
   <<OP_LD_HL_IMM16, OP_INC_H>>, <<OP_LD_HL_IMM16, OP_INC_L>>}

Increments ==
  LET plain == {<<p[1], v, v, p[2]>> : p \in IncOf, v \in Operands}
                 \cup {<<OP_LD_A_IMM8, v, OP_INC_A>> : v \in Operands}
  IN plain \cup {<<OP_OR_A>> \o p : p \in plain}

\* n pushes of register pairs and the n matching pops in reverse order, on the
\* stack of the reset and on a stack in work RAM.
PushOps == <<OP_PUSH_BC, OP_PUSH_DE, OP_PUSH_HL, OP_PUSH_AF>>

PopOps == <<OP_POP_AF, OP_POP_HL, OP_POP_DE, OP_POP_BC>>

MaxPairs == Len(PushOps)

PushPop(n) == SubSeq(PushOps, 1, n) \o SubSeq(PopOps, MaxPairs + 1 - n, MaxPairs)

WramStack == <<OP_LD_SP_IMM16, 0, 208>>

PushPops ==
  LET nested == {PushPop(n) : n \in 1..MaxPairs}
      alone == {<<PushOps[i], PopOps[MaxPairs + 1 - i]>> : i \in 1..MaxPairs}
      plain == nested \cup alone \cup {<<OP_PUSH_BC, OP_POP_AF>>}
  IN plain \cup {WramStack \o p : p \in plain}

\* The timer is started with clock-select 1 and a counter about to overflow,
\* and k instructions later the program runs into an undefined opcode.
TimerThenUndefined ==
  {<<OP_LD_A_IMM8, 255, OP_LDH_IMM8_A, 5, OP_LD_A_IMM8, 5, OP_LDH_IMM8_A, 7>>
     \o [i \in 1..k |-> 0] \o <<211>> : k \in 0..3}

\* The accumulator is loaded with a, then added to, subtracted from or
\* compared with the immediate x, with the Carry of the reset (set) or after
\* OR A has cleared the flags.
ArithOps ==
  {OP_ADD_A_IMM8, OP_ADC_A_IMM8, OP_SUB_IMM8, OP_SBC_A_IMM8, OP_CP_IMM8}

Arithmetic ==
  LET plain == {<<OP_LD_A_IMM8, a, op, x>> :
                  a \in Operands, op \in ArithOps, x \in Operands}
  IN plain \cup {<<OP_OR_A>> \o p : p \in plain}

\* A signed immediate is added to the stack pointer of the reset.
SpRelative ==
  {<<op, x>> : op \in {OP_ADD_SP_SIMM8, OP_LD_HL_SP_SIMM8}, x \in Operands}

\* JR cc (0x20, 0x28, 0x30, 0x38), RET cc (0xC0, ...), JP cc (0xC2, ...) and
\* CALL cc (0xC4, ...), for cc NZ, Z, NC and C in that order.
ConditionalOps ==
  {32, 40, 48, 56} \cup {192, 200, 208, 216} \cup {194, 202, 210, 218}
    \cup {196, 204, 212, 220}

\* A conditional instruction with the flags of the reset (Zero and Carry
\* set) or after OR A has cleared them, jumping forwards or backwards.
Conditionals ==
  LET plain == {<<op>> \o x : op \in ConditionalOps, x \in {<<5, 1>>, <<254, 0>>}}
  IN plain \cup {<<OP_OR_A>> \o p : p \in plain}

\* RLCA (0x07), RRCA (0x0F), RLA (0x17) and RRA (0x1F).
AccumulatorRotates == {7, 15, 23, 31}

\* CB 00-1F: RLC, RRC, RL and RR of B, C, D, E, H, L, (HL) and A.
ExtendedRotates == 0..31

\* A rotate of the accumulator after it has been loaded, with the carry flag
\* of the reset or after OR A has cleared it, and an extended rotate of a
\* register with the carry flag cleared.
Rotates ==
  {<<OP_LD_A_IMM8, x, op>> : x \in {0, 1, 128}, op \in AccumulatorRotates}
    \cup {<<OP_LD_A_IMM8, x, OP_OR_A, op>> :
            x \in {0, 1, 128}, op \in AccumulatorRotates}
    \cup {<<OP_OR_A, OP_PREFIX_CB, op>> : op \in ExtendedRotates}

OP_RET == 201

OP_CALL_IMM16 == 205

\* CALL NZ/Z/NC/C (0xC4, 0xCC, 0xD4, 0xDC) and CALL.
CallOps == {196, 204, 212, 220, OP_CALL_IMM16}

\* RST 00h, 08h, ..., 38h.
RstOps == {199, 207, 215, 223, 231, 239, 247, 255}

\* A call of the RET two bytes behind it, with the stack of the reset and
\* with the stack in work RAM, and the same with a conditional call whose
\* condition holds (after OR A has cleared Zero and Carry, or as the reset
\* has set them).
CallRets ==
  LET plain == {<<op, 4, 1, 0, OP_RET>> : op \in CallOps}
                 \cup {<<OP_OR_A, op, 5, 1, 0, OP_RET>> : op \in CallOps}
  IN plain \cup {<<OP_LD_SP_IMM16, 0, 208, OP_CALL_IMM16, 7, 1, 0, OP_RET>>}

Programs ==
  SingleOps \cup ExtendedOps \cup Jumps \cup Increments \cup PushPops
    \cup TimerThenUndefined \cup Arithmetic \cup SpRelative
    \cup Conditionals \cup Rotates \cup CallRets

\* Where libyagbe_cpu_reset leaves PC.
ProgramBase == 256

\* The cartridge image that holds the program.
Rom(program) ==
  [cells |-> [a \in CartCells \cup
                    (ProgramBase..(ProgramBase + Len(program) - 1)) |->
                IF a \in CartCells THEN RomImage.cells[a]
                ELSE program[a - ProgramBase + 1]],
   rest |-> 0]

\* The program the cartridge holds, and whether an address is inside it.
Program ==
  LET data == bus.cart.data.cells
      n == Cardinality(DOMAIN data \ CartCells)
  IN [i \in 1..n |-> data[ProgramBase + i - 1]]

InProgram(address) == address \in DOMAIN bus.cart.data.cells \ CartCells

InitCpu ==
  \E u \in UninitBytes : \E program \in Programs :
    \E m \in Boot(u, Rom(program)) : Is(m)

DoStepSystem ==
  \E m \in libyagbe_system_step(StartOp(Machine, "step", -1, -1)) : Becomes(m)

DoCpuReset ==
  \E m \in libyagbe_cpu_reset(StartOp(Machine, "cpu_reset", -1, -1)) :
    Becomes(m)

\* for (;;) { if (libyagbe_system_step(&gb) == 0) return EXIT_FAILURE; }
CpuStep ==
  /\ Running(CpuMaxTime)
  /\ InProgram(cpu.reg.pc)
  /\ ~(obs.op = "step" /\ obs.cycles = 0)
  /\ DoStepSystem

\* A client resets the processor after some instruction.
CpuReset ==
  /\ Running(CpuMaxTime)
  /\ obs.op = "step"
  /\ DoCpuReset

NextCpu == CpuStep \/ CpuReset

SpecCpu == InitCpu /\ [][NextCpu]_vars

----------------------------------------------------------------------------
(* The emulated program writing the peripheral registers and reading them  *)
(* back.                                                                   *)

\* The audio control registers and the interrupt enable mask.
ADDR_NR50 == 65316

ADDR_NR51 == 65317

ADDR_NR52 == 65318

ADDR_IE == 65535

\* The registers of the timer and of the audio unit that the bus stores, and
\* the two interrupt registers.
PeripheralRegisters ==
  {ADDR_TAC, ADDR_TIMA, ADDR_TMA, ADDR_NR50, ADDR_NR51, ADDR_NR52, ADDR_IF,
   ADDR_IE}

\* The bytes written: with the timer's enable bit clear and set.
IoBytes == {0, 3, 165, 255}

IoWrite ==
  /\ Running(IoMaxTime)
  /\ \E address \in PeripheralRegisters, data \in IoBytes :
       DoWrite(address, data)

IoRead ==
  /\ Running(IoMaxTime)
  /\ \E address \in PeripheralRegisters : DoRead(address)

NextIo == IoWrite \/ IoRead

SpecIo == Init /\ [][NextIo]_vars

----------------------------------------------------------------------------
(* The emulated program writing work RAM and high RAM and reading them     *)
(* back.                                                                   *)

\* The last byte of work RAM, the first byte of high RAM, $FFF7, $FFF8 and
\* the last byte of high RAM (work RAM starts at ADDR_WRAM).
ADDR_WRAM_END == 57343

ADDR_HRAM == 65408

ADDR_HRAM_END == 65534

RamAddresses ==
  {ADDR_WRAM, ADDR_WRAM_END, ADDR_HRAM, ADDR_HOLE - 1, ADDR_HOLE,
   ADDR_HRAM_END}

RamBytes == {0, 165}

RamWrite ==
  /\ Running(RamMaxTime)
  /\ \E address \in RamAddresses, data \in RamBytes : DoWrite(address, data)

RamRead ==
  /\ Running(RamMaxTime)
  /\ \E address \in RamAddresses : DoRead(address)

NextRam == RamWrite \/ RamRead

SpecRam == Init /\ [][NextRam]_vars

----------------------------------------------------------------------------
(* The emulated program writing the counter and the interrupt flags while  *)
(* the timer runs, so that the timer's event falls due during a write.     *)

\* The timer is started with clock-select 1; the counter is written with a
\* byte that overflows at the next tick and one that does not; the interrupt
\* flags are written with the timer bit clear.
OrderWrites ==
  {<<ADDR_TAC, 5>>, <<ADDR_TIMA, 255>>, <<ADDR_TIMA, 7>>, <<ADDR_IF, 0>>,
   <<ADDR_IF, 251>>}

OrderWrite ==
  /\ Running(OrderMaxTime)
  /\ \E w \in OrderWrites : DoWrite(w[1], w[2])

OrderSetInterruptFlag ==
  /\ Running(OrderMaxTime) /\ interrupt_flag = "NULL" /\ DoSetInterruptFlag

NextOrder == OrderWrite \/ OrderSetInterruptFlag

SpecOrder == Init /\ [][NextOrder]_vars

----------------------------------------------------------------------------
(* A client with two system objects, gb and other, both initialised with    *)
(* libyagbe_system_init, reading, writing and stepping either of them. The  *)
(* statics of sched.c and timer.c exist once in the process.                *)

Instances == {"gb", "other"}

\* A pointer into one system object, as the same pointer into the other one.
Renamed(p) ==
  CASE p = "timer" -> "other.timer"
    [] p = "other.timer" -> "timer"
    [] p = "bus" -> "other.bus"
    [] p = "other.bus" -> "bus"
    [] p = "gb" -> "other"
    [] p = "other" -> "gb"
    [] OTHER -> p

\* The two system objects change places, and with them every pointer into
\* either of them.
Swap(m) ==
  [m EXCEPT !.bus = m.other.bus,
            !.cpu = m.other.cpu,
            !.other = [bus |-> m.bus, cpu |-> m.cpu],
            !.interrupt_flag = Renamed(m.interrupt_flag),
            !.events =
              [i \in SlotIndex |->
                 IF m.events[i].cb_func = "handle_timer_update"
                 THEN [m.events[i] EXCEPT
                         !.userdata = Renamed(m.events[i].userdata)]
                 ELSE m.events[i]],
            !.obs = [m.obs EXCEPT !.on = Renamed(m.obs.on),
                                  !.timer = Renamed(m.obs.timer)]]

\* The call f made with the system object named instance.
On(instance, m, f(_)) ==
  LET m1 == Note(m, "on", instance)
  IN IF instance = "gb" THEN f(m1) ELSE {Swap(x) : x \in f(Swap(m1))}

\* &instance.bus.interrupt_flag
FlagOf(instance) == IF instance = "gb" THEN "bus" ELSE "other.bus"

\* The timer is started with clock-select 1 and brought to its overflow.
TwoWrites == {<<ADDR_TAC, 5>>, <<ADDR_TIMA, 255>>}

TwoReads == {ADDR_TIMA, ADDR_IF}

InitTwo ==
  \E u \in UninitBytes : \E m \in InitMachine(u) :
    \E m2 \in On("other", m, LAMBDA x : libyagbe_system_init(x, RomImage)) :
      Is(Note(m2, "on", "gb"))

TwoRead ==
  /\ Running(TwoMaxTime)
  /\ \E instance \in Instances, address \in TwoReads :
       \E m \in On(instance, StartOp(Machine, "read", address, -1),
                   LAMBDA x : libyagbe_bus_read_memory(x, address)) :
         Becomes(m)

TwoWrite ==
  /\ Running(TwoMaxTime)
  /\ \E instance \in Instances, w \in TwoWrites :
       \E m \in On(instance, StartOp(Machine, "write", w[1], w[2]),
                   LAMBDA x : libyagbe_bus_write_memory(x, w[1], w[2])) :
         Becomes(m)

TwoStep ==
  /\ Running(TwoMaxTime)
  /\ \E instance \in Instances :
       \E m \in On(instance, StartOp(Machine, "step", -1, -1),
                   libyagbe_system_step) :
         Becomes(m)

TwoSetInterruptFlag ==
  /\ Running(TwoMaxTime)
  /\ \E instance \in Instances :
       /\ interrupt_flag # FlagOf(instance)
       /\ \E m \in On(instance,
                       StartOp(Machine, "set_interrupt_flag", -1, -1),
                       LAMBDA x : libyagbe_timer_set_interrupt_flag(x, "bus")) :
            Becomes(m)

NextTwo == TwoRead \/ TwoWrite \/ TwoStep \/ TwoSetInterruptFlag

SpecTwo == InitTwo /\ [][NextTwo]_vars

----------------------------------------------------------------------------
(* The properties of the scheduler, the bus and the timer.                 *)

\* No swap has brought bytes from outside events[] into the array.
NoWild == \A i \in SlotIndex : events[i].cb_func # "wild"

\* The slots the heap holds.
Live == {i \in SlotIndex : i < heap_size}

\* The program runs on and every slot holds what the program put there.
Sound == crashed = "no" /\ NoWild

\* C1: an event inserted with delay d when the timestamp is t fires exactly
\* when the timestamp reaches t + d, never before and never after: whatever
\* fired did so at t + d, and whatever is due by now has fired.
C1_FiresExactlyAtExpiry ==
  Sound =>
    \A u \in asked :
      /\ \A f \in fired : f.userdata = u => f.at = u.t + u.d
      /\ current_timestamp >= u.t + u.d =>
           [userdata |-> u, at |-> u.t + u.d] \in fired

\* C2: after every operation on the scheduler the pending events are a
\* min-heap on the expiry time: no slot of the heap expires before its parent,
\* so the root is the earliest event.
C2_MinHeap ==
  Sound =>
    \A i \in Live \ {0} :
      events[get_parent_node(i)].expiry_time <= events[i].expiry_time

\* C3: no expiry is skipped: once the scheduler has stepped to a timestamp,
\* no pending event is left with an expiry at or before it, two events of the
\* same expiry included.
C3_NoExpirySkipped ==
  (Sound /\ obs.op = "step") =>
    \A i \in Live : events[i].expiry_time > current_timestamp

\* C4: no sequence of writes of the timer's control register by the emulated
\* program makes libyagbe_sched_insert trip its capacity assertion.
C4_NoOverflowFromSoftware == crashed # "assert"

\* C5: the heap never holds more than MAX_EVENTS events, and an insert trips
\* the capacity assertion only when MAX_EVENTS events are already pending.
C5_CapacityContract ==
  /\ heap_size <= MAX_EVENTS
  /\ (obs.op = "insert" /\ crashed = "assert") => obs.h0 = MAX_EVENTS

\* C6: initialising or resetting the system resets the scheduler: the
\* timestamp is 0 and no event is pending.
C6_SystemResetResetsScheduler ==
  obs.op \in {"system_init", "system_reset"} =>
    current_timestamp = 0 /\ heap_size = 0

\* C7: every bus read and every bus write that returns has stepped the
\* scheduler exactly once, so the timestamp has advanced by 4, and a read
\* returns what the step left: a read of TIMA returns the counter as it is
\* after the step.
C7_OneStepPerAccess ==
  obs.op \in {"read", "write"} =>
    /\ obs.steps <= 1
    /\ crashed = "no" => obs.steps = 1 /\ current_timestamp = obs.t0 + QUANTUM
    /\ (crashed = "no" /\ obs.op = "read" /\ obs.address = ADDR_TIMA) =>
         obs.ret = bus.timer.tima

\* C7's case: a read of TIMA during which the timer's event fired.
C7_Witness ==
  /\ obs.op = "read" /\ obs.address = ADDR_TIMA
  /\ crashed = "no" /\ obs.cbs = 1
  /\ obs.ret = bus.timer.tima

\* The addresses libyagbe_bus_read_memory has a handler for: cartridge ROM,
\* work RAM, TIMA, IF, LY, high RAM but $FFF8, and IE.
ReadHandled ==
  (0..32767) \cup (49152..57343) \cup {65285, 65295, 65348}
  \cup ((65408..65535) \ {65528})

\* The addresses the write switch stores nothing for: cartridge ROM, external
\* RAM, $E000-$FEFF and the I/O offsets with no case.
WriteUnhandled ==
  (0..32767) \cup (40960..49151) \cup (57344..65279)
  \cup {65280, 65283, 65284} \cup (65288..65294) \cup (65296..65311)
  \cup {65345} \cup (65348..65350) \cup (65352..65407)

\* Nothing but the timestamp has changed.
OnlyTimeMoved ==
  /\ bus' = bus
  /\ cpu' = cpu
  /\ heap_size' = heap_size
  /\ events' = events
  /\ interrupt_flag' = interrupt_flag

C10_TimerPeriod ==
  LET run == obs.run
      periods == (current_timestamp - run.t) \div timing(run.k)
  IN (Sound /\ run.t >= 0 /\ run.tima + periods <= 255) =>
       bus.timer.tima = run.tima + periods

\* C11: when the timer's callback runs with TIMA = 0xFF, the same bus access
\* leaves TIMA equal to TMA and bit 2 of the interrupt-flag register set, and
\* changes no other bit of that register; the access does not abort.  Stated
\* for the callbacks of a timer that is enabled.
C11_OverflowIsAtomic ==
  [][(obs'.wrapped /\ TacEnabled(bus.timer.tac)) =>
       /\ crashed' = "no"
       /\ bus'.timer.tima = bus'.timer.tma
       /\ bus'.interrupt_flag = OrFlagTimer(bus.interrupt_flag)
       /\ (bus'.interrupt_flag \div FLAG_TIMER) % 2 = 1]_vars

\* C12: once a control write has cleared the enable bit, and until a control
\* write sets it again, no bus access changes TIMA (but a write of TIMA
\* itself) or the timer bit of the interrupt-flag register.  Stated for the
\* accesses in which TIMA does not wrap.
C12_DisabledTimerIsStopped ==
  [][(/\ ~obs'.wrapped
      /\ ~TacEnabled(bus.timer.tac)
      /\ ~TacEnabled(bus'.timer.tac)
      /\ obs'.op \in {"read", "write"}
      /\ ~(obs'.op = "write" /\ obs'.address \in {ADDR_TIMA, ADDR_IF})) =>
       /\ bus'.timer.tima = bus.timer.tima
       /\ bus'.interrupt_flag = bus.interrupt_flag]_vars

----------------------------------------------------------------------------
(* The properties of the processor.                                        *)

\* C13: libyagbe_cpu_reset, whatever the registers held before, leaves
\* A=0x01, F=0xB0, B=0x00, C=0x13, D=0x00, E=0xD8, H=0x01, L=0x4D, SP=0xFFFE
\* and PC=0x0100.
C13_ResetSetsPowerOnValues ==
  obs.op = "cpu_reset" =>
    cpu.reg = [a |-> 1, f |-> 176, b |-> 0, c |-> 19, d |-> 0, e |-> 216,
               h |-> 1, l |-> 77, sp |-> 65534, pc |-> 256]

\* The processor is reset right after LD SP,imm16 has moved the stack.
C13_Witness ==
  /\ obs.op = "cpu_reset"
  /\ cpu.instruction = OP_LD_SP_IMM16
  /\ cpu.reg.sp = 65534

\* C14: from libyagbe_cpu_reset on, after any sequence of libyagbe_cpu_step
\* calls, POP AF of arbitrary stack bytes included, the low nibble of F is 0.
C14_LowNibbleOfFIsZero == cpu.reg.f % 16 = 0

\* POP AF has just taken F from a stack byte whose low nibble is not 0.
C14_Witness ==
  /\ obs.op = "step"
  /\ obs.cycles = 4
  /\ cpu.instruction = OP_POP_AF
  /\ cpu.reg.sp = 65534
  /\ Peek(bus.hram, 65532 - 65408) % 16 # 0
  /\ cpu.reg.f = (Peek(bus.hram, 65532 - 65408) \div 16) * 16

\* C15: with the stack in work RAM or high RAM (the stack of the reset, at
\* $FFFE, included), n PUSH instructions of register pairs followed by the n
\* matching POP instructions in reverse order restore the register pairs and
\* leave SP as it was before the first push.  Stated for the cartridges that
\* hold such a sequence, when the last POP has returned.
C15_PushPopRoundTrip ==
  LET moved == Len(Program) > Len(WramStack)
                 /\ SubSeq(Program, 1, Len(WramStack)) = WramStack
      pairs == IF moved
               THEN SubSeq(Program, Len(WramStack) + 1, Len(Program))
               ELSE Program
      before == (CHOOSE m \in libyagbe_cpu_reset(Machine) : TRUE).cpu.reg
      sp == IF moved THEN WramStack[3] * 256 + WramStack[2] ELSE before.sp
  IN (/\ pairs \in {PushPop(n) : n \in 1..MaxPairs}
      /\ obs.op = "step"
      /\ crashed = "no"
      /\ cpu.reg.pc = ProgramBase + Len(Program)) =>
       cpu.reg = [before EXCEPT !.sp = sp, !.pc = cpu.reg.pc]

\* The opcode at PC (with the extended opcode after a 0xCB prefix) has an
\* entry in the table of libyagbe_cpu_step.
HasEntry(b, pc) ==
  LET op == ReadDecode(b, pc)
  IN IF op = OP_PREFIX_CB THEN ReadDecode(b, U16(pc + 1)) \in CbTable
     ELSE op \in MainTable

\* C16: libyagbe_cpu_step returns 0 if and only if the fetched opcode (after
\* 0xCB, the extended opcode) has no table entry; in that case it returns
\* normally, without aborting or trapping; for an opcode that has an entry it
\* returns a non-zero multiple of 4.
C16_IllegalOpcodeSignalling ==
  [][obs'.op = "step" =>
       IF HasEntry(bus', cpu.reg.pc)
       THEN crashed' = "no" => obs'.cycles # 0 /\ obs'.cycles % 4 = 0
       ELSE crashed' = "no" /\ obs'.cycles = 0]_vars

\* C17: libyagbe_cpu_step reports an illegal opcode only for the 11 undefined
\* bytes of the main table, 0xD3, 0xDB, 0xDD, 0xE3, 0xE4, 0xEB, 0xEC, 0xED,
\* 0xF4, 0xFC and 0xFD; every other main opcode (STOP, HALT, DI and EI
\* included) and each of the 256 0xCB-prefixed opcodes is executed.
C17_OnlyUndefinedAreIllegal ==
  (obs.op = "step" /\ crashed = "no" /\ obs.cycles = 0) =>
    cpu.instruction \in {211, 219, 221, 227, 228, 235, 236, 237, 244, 252, 253}

\* C18: during one libyagbe_cpu_step the scheduler is stepped once per machine
\* cycle of the instruction: the timestamp of the scheduler advances by
\* exactly the cycle count that the step returns.
C18_CyclesAreSchedulerTime ==
  [][(obs'.op = "step" /\ crashed' = "no") =>
       /\ current_timestamp' - current_timestamp = obs'.cycles
       /\ obs'.steps * QUANTUM = obs'.cycles]_vars

\* C19: JP imm16 (opcode 0xC3), for every pair of immediate bytes lo, hi that
\* follows the opcode: after libyagbe_cpu_step PC = (hi << 8) | lo, no other
\* register and no flag has changed, and the step has returned 16.
C19_JpImm16 ==
  [][(obs'.op = "step" /\ crashed' = "no"
        /\ cpu'.instruction = OP_JP_IMM16) =>
       LET lo == ReadDecode(bus, U16(cpu.reg.pc + 1))
           hi == ReadDecode(bus, U16(cpu.reg.pc + 2))
       IN /\ cpu'.reg = [cpu.reg EXCEPT !.pc = hi * 256 + lo]
          /\ obs'.cycles = 16]_vars

\* JP 0x1234 has been executed at $0100.
C19_Witness ==
  /\ obs.op = "step"
  /\ crashed = "no"
  /\ cpu.instruction = OP_JP_IMM16
  /\ Program = <<OP_JP_IMM16, 52, 18>>
  /\ cpu.reg.pc = 4660
  /\ obs.cycles = 16

\* The register that each INC r opcode increments.
IncRegister ==
  [op \in {OP_INC_A, OP_INC_B, OP_INC_C, OP_INC_D, OP_INC_E, OP_INC_H,
           OP_INC_L} |->
     CASE op = OP_INC_A -> "a" [] op = OP_INC_B -> "b" [] op = OP_INC_C -> "c"
       [] op = OP_INC_D -> "d" [] op = OP_INC_E -> "e" [] op = OP_INC_H -> "h"
       [] OTHER -> "l"]

\* C20: 8-bit INC r (r in A, B, C, D, E, H, L), for every operand value v: the
\* register becomes (v + 1) mod 256, Zero is set iff the result is 0, Subtract
\* is cleared, Half-Carry is set iff (v & 0x0F) = 0x0F, Carry is unchanged, PC
\* advances by 1 and the step returns 4.
C20_IncR ==
  [][(obs'.op = "step" /\ crashed' = "no"
        /\ cpu'.instruction \in DOMAIN IncRegister) =>
       LET r == IncRegister[cpu'.instruction]
           v == cpu.reg[r]
           f == cpu'.reg.f
       IN /\ cpu'.reg[r] = (v + 1) % 256
          /\ HasBit(f, LIBYAGBE_CPU_FLAG_Z) <=> ((v + 1) % 256 = 0)
          /\ ~HasBit(f, LIBYAGBE_CPU_FLAG_N)
          /\ HasBit(f, LIBYAGBE_CPU_FLAG_H) <=> (v % 16 = 15)
          /\ HasBit(f, LIBYAGBE_CPU_FLAG_C)
               <=> HasBit(cpu.reg.f, LIBYAGBE_CPU_FLAG_C)
          /\ cpu'.reg.pc = U16(cpu.reg.pc + 1)
          /\ obs'.cycles = 4]_vars

\* The carry that an addition or a subtraction takes in: the Carry flag for
\* ADC and SBC, nothing for ADD, SUB and CP.
CarryIn(op, f) ==
  IF op \in {OP_ADC_A_IMM8, OP_SBC_A_IMM8} /\ HasBit(f, LIBYAGBE_CPU_FLAG_C)
  THEN 1 ELSE 0

\* C21: for every A, operand and carry-in, after ADD/ADC the Half-Carry flag
\* is the carry out of bit 3, ((A ^ operand ^ result) & 0x10) != 0, and after
\* SUB/SBC/CP it is set iff a borrow into bit 4 occurred.  Stated for the
\* forms with an immediate operand.
C21_HalfCarryOfAddSub ==
  [][(obs'.op = "step" /\ crashed' = "no" /\ cpu'.instruction \in ArithOps) =>
       LET op == cpu'.instruction
           a == cpu.reg.a
           x == ReadDecode(bus, U16(cpu.reg.pc + 1))
           c == CarryIn(op, cpu.reg.f)
           h == HasBit(cpu'.reg.f, LIBYAGBE_CPU_FLAG_H)
       IN IF op \in {OP_ADD_A_IMM8, OP_ADC_A_IMM8}
          THEN h <=> ((a % 16) + (x % 16) + c > 15)
          ELSE h <=> ((a % 16) < (x % 16) + c)]_vars

\* SUB, SBC and CP with a register, (HL) or an immediate (0x90-0x9F, 0xB8-0xBF,
\* 0xD6, 0xDE, 0xFE) and DEC r, DEC (HL) (0x05, 0x0D, ..., 0x3D).
SubtractFamily ==
  (144..159) \cup (184..191) \cup {OP_SUB_IMM8, OP_SBC_A_IMM8, OP_CP_IMM8}
    \cup {5, 13, 21, 29, 37, 45, 53, 61}

\* ADD and ADC with a register, (HL) or an immediate (0x80-0x8F, 0xC6, 0xCE),
\* INC r, INC (HL) (0x04, 0x0C, ..., 0x3C) and ADD HL,rr (0x09, ..., 0x39).
AddFamily ==
  (128..143) \cup {OP_ADD_A_IMM8, OP_ADC_A_IMM8}
    \cup {4, 12, 20, 28, 36, 44, 52, 60} \cup {9, 25, 41, 57}

\* C22: after every subtraction-family instruction (SUB, SBC, CP, DEC r) the
\* Subtract flag is set, and after every addition-family instruction (ADD,
\* ADC, INC r, ADD HL,rr) it is cleared, whatever the operands and the flags
\* before.  Stated for the steps that execute their instruction.
C22_SubtractFlag ==
  (obs.op = "step" /\ crashed = "no" /\ obs.cycles # 0) =>
    /\ cpu.instruction \in SubtractFamily =>
         HasBit(cpu.reg.f, LIBYAGBE_CPU_FLAG_N)
    /\ cpu.instruction \in AddFamily =>
         ~HasBit(cpu.reg.f, LIBYAGBE_CPU_FLAG_N)

\* C23: ADC A,x sets A to (A + x + C) mod 256 with Carry set iff
\* A + x + C > 0xFF; SBC A,x sets A to (A - x - C) mod 256 with Carry set iff
\* A - x - C < 0; ADD, SUB and CP are the same with carry-in 0, CP leaving A
\* unchanged; Zero is set iff the 8-bit result is 0.  Stated for the forms
\* with an immediate operand.
C23_CarryAwareArithmetic ==
  [][(obs'.op = "step" /\ crashed' = "no" /\ cpu'.instruction \in ArithOps) =>
       LET op == cpu'.instruction
           a == cpu.reg.a
           x == ReadDecode(bus, U16(cpu.reg.pc + 1))
           c == CarryIn(op, cpu.reg.f)
           adds == op \in {OP_ADD_A_IMM8, OP_ADC_A_IMM8}
           total == IF adds THEN a + x + c ELSE a - x - c
           result == (total + 256) % 256
       IN /\ cpu'.reg.a = IF op = OP_CP_IMM8 THEN a ELSE result
          /\ HasBit(cpu'.reg.f, LIBYAGBE_CPU_FLAG_C)
               <=> IF adds THEN total > 255 ELSE total < 0
          /\ HasBit(cpu'.reg.f, LIBYAGBE_CPU_FLAG_Z) <=> (result = 0)]_vars

\* (int8_t)x
Signed8(x) == IF x >= 128 THEN x - 256 ELSE x

\* C24: ADD SP,simm8 and LD HL,SP+simm8, for every SP and every signed 8-bit
\* immediate: the 16-bit result is (SP + simm8) mod 65536, Half-Carry is the
\* carry out of bit 3 and Carry the carry out of bit 7 of the unsigned
\* addition of the low byte of SP and the immediate, and Zero and Subtract
\* are cleared.
C24_StackPointerRelativeAdd ==
  [][(obs'.op = "step" /\ crashed' = "no"
        /\ cpu'.instruction \in {OP_ADD_SP_SIMM8, OP_LD_HL_SP_SIMM8}) =>
       LET imm == ReadDecode(bus, U16(cpu.reg.pc + 1))
           sp == cpu.reg.sp
           sum == (sp + Signed8(imm) + 65536) % 65536
           f == cpu'.reg.f
       IN /\ IF cpu'.instruction = OP_ADD_SP_SIMM8
             THEN cpu'.reg.sp = sum
             ELSE cpu'.reg.h * 256 + cpu'.reg.l = sum
          /\ HasBit(f, LIBYAGBE_CPU_FLAG_H) <=> ((sp % 16) + (imm % 16) > 15)
          /\ HasBit(f, LIBYAGBE_CPU_FLAG_C) <=> ((sp % 256) + imm > 255)
          /\ ~HasBit(f, LIBYAGBE_CPU_FLAG_Z)
          /\ ~HasBit(f, LIBYAGBE_CPU_FLAG_N)]_vars

\* INC rr is 0x03, 0x13, 0x23, 0x33 and DEC rr 0x0B, 0x1B, 0x2B, 0x3B, for rr
\* BC, DE, HL and SP in that order.
WordOps == {3, 19, 35, 51, 11, 27, 43, 59}

\* The registers after rr has become rr + 1 or rr - 1 and PC has advanced.
AfterWordOp(reg, op) ==
  LET which == op \div 16
      delta == IF op % 16 = 3 THEN 1 ELSE 65535
      hi == <<"b", "d", "h">>[which + 1]
      lo == <<"c", "e", "l">>[which + 1]
      pc == U16(reg.pc + 1)
  IN IF which = 3
     THEN [reg EXCEPT !.sp = U16(@ + delta), !.pc = pc]
     ELSE LET rr == U16(reg[hi] * 256 + reg[lo] + delta)
          IN [reg EXCEPT ![hi] = rr \div 256, ![lo] = rr % 256, !.pc = pc]

\* C25: INC rr and DEC rr (rr in BC, DE, HL, SP) change only the named 16-bit
\* register, to rr + 1 or rr - 1 mod 65536, and PC; F and every other
\* register are unchanged.  Stated for the steps that execute their
\* instruction.
C25_WordIncDecFrame ==
  [][(obs'.op = "step" /\ crashed' = "no" /\ obs'.cycles # 0
        /\ cpu'.instruction \in WordOps) =>
       cpu'.reg = AfterWordOp(cpu.reg, cpu'.instruction)]_vars

\* The condition of a conditional instruction on the flags f: bits 3 and 4 of
\* the opcode say NZ, Z, NC or C.
ConditionHolds(op, f) ==
  LET cc == (op \div 8) % 4
  IN CASE cc = 0 -> ~HasBit(f, LIBYAGBE_CPU_FLAG_Z)
       [] cc = 1 -> HasBit(f, LIBYAGBE_CPU_FLAG_Z)
       [] cc = 2 -> ~HasBit(f, LIBYAGBE_CPU_FLAG_C)
       [] OTHER -> HasBit(f, LIBYAGBE_CPU_FLAG_C)

\* C26: each conditional JR/JP/CALL/RET (NZ, Z, NC, C) transfers control iff
\* its condition holds on the current F; when the condition fails PC ends at
\* the address of the next instruction and SP and memory are unchanged; when
\* it holds PC is the target (for JR the address of the next instruction plus
\* the signed immediate).
C26_ConditionalControlFlow ==
  [][(obs'.op = "step" /\ crashed' = "no"
        /\ cpu'.instruction \in ConditionalOps) =>
       LET op == cpu'.instruction
           pc == cpu.reg.pc
           sp == cpu.reg.sp
           lo == ReadDecode(bus, U16(pc + 1))
           hi == ReadDecode(bus, U16(pc + 2))
           jr == op < 64
           ret == op >= 192 /\ op % 8 = 0
           next == U16(pc + (IF jr THEN 2 ELSE IF ret THEN 1 ELSE 3))
           target ==
             IF jr THEN U16(next + Signed8(lo) + 65536)
             ELSE IF ret
             THEN ReadDecode(bus, U16(sp + 1)) * 256 + ReadDecode(bus, sp)
             ELSE hi * 256 + lo
       IN IF ConditionHolds(op, cpu.reg.f)
          THEN cpu'.reg.pc = target
          ELSE cpu'.reg.pc = next /\ cpu'.reg.sp = sp /\ bus' = bus]_vars

\* What a system object sees of the scheduler: sched.c keeps one timestamp
\* and one heap, whichever object the call was made for.
SeenBy(instance) ==
  [timestamp |-> current_timestamp, pending |-> {events[i] : i \in Live}]

\* The timer bit of the interrupt flags of a system object.
TimerBit(instance) ==
  LET b == IF instance = "gb" THEN bus ELSE other.bus
  IN (b.interrupt_flag \div FLAG_TIMER) % 2

\* The system object whose timer has overflowed in this operation.
Overflowed == IF obs.timer = "timer" THEN "gb" ELSE "other"

\* C27: with two system objects, a bus access or a CPU step on one does not
\* change the timestamp or the pending events that the other one sees, and
\* an overflow of the timer of one sets the timer bit in the interrupt flags
\* of that one and of no other.
C27_SessionIsolation ==
  [][(obs'.op \in {"read", "write", "step"} /\ crashed' = "no") =>
       /\ \A i \in Instances \ {obs'.on} : SeenBy(i)' = SeenBy(i)
       /\ obs'.wrapped =>
            \A i \in Instances :
              TimerBit(i)' = IF i = Overflowed' THEN 1 ELSE TimerBit(i)]_vars

\* The byte a peripheral register holds after v has been written to it.
Held(address, v) == IF address = ADDR_TAC THEN v % 8 ELSE v

\* C28: a write of v to the timer control, counter or reload register, to an
\* audio control register, to the interrupt flags or to the interrupt enable
\* mask, followed by a read of the same address with no timer event fired in
\* between, returns v (for the timer control: the low 3 bits of v).
C28_PeripheralRegistersReadBack ==
  [][(/\ obs.op = "write" /\ obs.address \in PeripheralRegisters
      /\ obs'.op = "read" /\ obs'.address = obs.address
      /\ obs'.cbs = 0 /\ crashed' = "no") =>
       obs'.ret = Held(obs.address, obs.data)]_vars

\* The register pair that a PUSH or POP opcode names: high and low register.
StackPair(op) ==
  CASE op \in {OP_PUSH_BC, OP_POP_BC} -> <<"b", "c">>
    [] op \in {OP_PUSH_DE, OP_POP_DE} -> <<"d", "e">>
    [] op \in {OP_PUSH_HL, OP_POP_HL} -> <<"h", "l">>
    [] OTHER -> <<"a", "f">>

\* The transactions of the step after the fetch of the opcode.
DataTransactions == SubSeq(obs.trace, 2, Len(obs.trace))

\* C29: PUSH rr writes the high byte of rr at SP-1 and then the low byte at
\* SP-2 and leaves SP decreased by 2; POP rr reads the low byte from SP and
\* then the high byte from SP+1 and leaves SP increased by 2; each makes
\* exactly these two data transactions on the bus, in this order.
C29_StackByteOrder ==
  [][(obs'.op = "step" /\ crashed' = "no") =>
       LET op == cpu'.instruction
           sp == cpu.reg.sp
           hi == StackPair(op)[1]
           lo == StackPair(op)[2]
           data == DataTransactions'
       IN /\ op \in {OP_PUSH_BC, OP_PUSH_DE, OP_PUSH_HL, OP_PUSH_AF} =>
               /\ data = <<[kind |-> "write", address |-> U16(sp + 65535),
                            data |-> cpu.reg[hi]],
                           [kind |-> "write", address |-> U16(sp + 65534),
                            data |-> cpu.reg[lo]]>>
               /\ cpu'.reg.sp = U16(sp + 65534)
          /\ op \in {OP_POP_BC, OP_POP_DE, OP_POP_HL, OP_POP_AF} =>
               /\ Len(data) = 2
               /\ data[1].kind = "read" /\ data[1].address = sp
               /\ data[2].kind = "read" /\ data[2].address = U16(sp + 1)
               /\ cpu'.reg[lo] =
                    IF op = OP_POP_AF THEN (data[1].data \div 16) * 16
                    ELSE data[1].data
               /\ cpu'.reg[hi] = data[2].data
               /\ cpu'.reg.sp = U16(sp + 2)]_vars

\* PUSH BC has stored B = 0x00 above C = 0x13, and POP DE has read the two
\* bytes back, low byte first.
C29_Witness ==
  /\ obs.op = "step" /\ crashed = "no" /\ cpu.instruction = OP_POP_DE
  /\ Program = <<OP_PUSH_BC, OP_PUSH_DE, OP_POP_DE, OP_POP_BC>>
  /\ Len(obs.trace) = 3
  /\ obs.trace[2].data # obs.trace[3].data
  /\ cpu.reg.e = obs.trace[2].data /\ cpu.reg.d = obs.trace[3].data

\* The byte x rotated as the rotate numbered kind does it (0 RLC, 1 RRC,
\* 2 RL, 3 RR), with carry in {0, 1} the carry flag before.
Rotated(kind, x, carry) ==
  CASE kind = 0 -> ((2 * x) % 256) + (x \div 128)
    [] kind = 1 -> (x \div 2) + 128 * (x % 2)
    [] kind = 2 -> ((2 * x) % 256) + carry
    [] OTHER -> (x \div 2) + 128 * carry

\* The bit of x that the rotate numbered kind moves out.
RotatedOut(kind, x) == IF kind \in {0, 2} THEN x \div 128 ELSE x % 2

\* The register that the low three bits of an extended opcode name.
RotateRegister(op) ==
  CASE op % 8 = 0 -> "b" [] op % 8 = 1 -> "c" [] op % 8 = 2 -> "d"
    [] op % 8 = 3 -> "e" [] op % 8 = 4 -> "h" [] op % 8 = 5 -> "l"
    [] OTHER -> "a"

\* C30: RLCA, RRCA, RLA and RRA leave Zero, Subtract and Half-Carry cleared,
\* even when the rotated result is 0, with Carry the bit rotated out; the
\* extended RLC/RRC/RL/RR r set Zero iff the result is 0.
C30_Rotates ==
  [][(obs'.op = "step" /\ crashed' = "no") =>
       LET op == cpu'.instruction
           cb == ReadDecode(bus, U16(cpu.reg.pc + 1))
           carry == IF HasBit(cpu.reg.f, LIBYAGBE_CPU_FLAG_C) THEN 1 ELSE 0
           f == cpu'.reg.f
       IN /\ op \in AccumulatorRotates =>
               /\ ~HasBit(f, LIBYAGBE_CPU_FLAG_Z)
               /\ ~HasBit(f, LIBYAGBE_CPU_FLAG_N)
               /\ ~HasBit(f, LIBYAGBE_CPU_FLAG_H)
               /\ HasBit(f, LIBYAGBE_CPU_FLAG_C)
                    <=> RotatedOut(op \div 8, cpu.reg.a) = 1
          /\ (op = OP_PREFIX_CB /\ cb \in ExtendedRotates /\ cb % 8 # 6) =>
               (HasBit(f, LIBYAGBE_CPU_FLAG_Z)
                  <=> Rotated(cb \div 8, cpu.reg[RotateRegister(cb)],
                              carry) = 0)]_vars

\* The userdata of the events that have fired.
FiredData == {f.userdata : f \in fired}

\* C31: with pairwise distinct expiries no pending event is lost or corrupted
\* by an extraction: every event inserted fires once, with its own userdata,
\* in the step that makes the timestamp its expiry, and the pending events
\* are always the events inserted less the events fired.
C31_NoEventLost ==
  Sound =>
    /\ \A f \in fired : f.userdata \in asked /\ f.at = f.userdata.t + f.userdata.d
    /\ \A u \in asked :
         current_timestamp >= u.t + u.d =>
           [userdata |-> u, at |-> u.t + u.d] \in fired
    /\ heap_size = Cardinality(asked \ FiredData)
    /\ \A i \in Live : events[i].cb_func = "test_cb"
    /\ \A i \in Live :
         /\ events[i].userdata \in asked \ FiredData
         /\ events[i].expiry_time = events[i].userdata.t + events[i].userdata.d
         /\ \A j \in Live \ {i} : events[j].userdata # events[i].userdata

\* C32: the sift-up of libyagbe_sched_insert and the sift-down of extract_min
\* read, compare and swap live slots only: no slot at or beyond heap_size and
\* nothing outside events[], the parent of slot 0 and the children of the
\* last slots included.
C32_OnlyLiveSlots ==
  obs.op \in {"insert", "step"} => ~obs.dead /\ ~obs.oob

\* The pending events whose callback is the update of the timer.
TimerEvents == {i \in Live : events[i].cb_func = "handle_timer_update"}

\* C33: after any sequence of bus accesses, writes of the timer's control
\* register that enable, disable and enable it again included, the scheduler
\* holds at most one pending event of the timer.
C33_OneTimerEvent == Sound => Cardinality(TimerEvents) <= 1

\* C34: in every run that starts with libyagbe_system_init, whenever
\* handle_timer_update handles an overflow of the counter, the static pointer
\* interrupt_flag it stores through is not NULL and points at the interrupt
\* flags of the bus of that system.
C34_InterruptFlagBound ==
  (obs.op \in {"read", "write"} /\ obs.wrapped) =>
    ~obs.null /\ interrupt_flag = "bus"

\* C35: the expiry of an event does not wrap: an event
\* inserted with delay d at timestamp t is stored with the expiry t + d, also
\* when t + d is beyond the largest unsigned int, and it has fired once the
\* timestamp has reached t + d.
C35_ExpiryDoesNotWrap ==
  Sound =>
    /\ \A i \in Live :
         events[i].cb_func = "test_cb" =>
           events[i].expiry_time = events[i].userdata.t + events[i].userdata.d
    /\ \A u \in asked :
         current_timestamp >= u.t + u.d =>
           [userdata |-> u, at |-> u.t + u.d] \in fired

\* The byte of work RAM or high RAM that the bus b holds for the address.
RamByte(b, address) ==
  IF address < ADDR_HRAM THEN Peek(b.wram, address - ADDR_WRAM)
  ELSE Peek(b.hram, address - ADDR_HRAM)

\* C36: for every address of work RAM ($C000-$DFFF) and of high RAM
\* ($FF80-$FFFE) a write of v followed by a read of the same address returns
\* v, and the write changes no other byte of RAM.
C36_RamRoundTrip ==
  [][/\ (/\ obs.op = "write" /\ obs.address \in RamAddresses
          /\ obs'.op = "read" /\ obs'.address = obs.address
          /\ crashed' = "no") =>
           obs'.ret = obs.data
     /\ (/\ obs'.op = "write" /\ obs'.address \in RamAddresses
          /\ crashed' = "no") =>
           /\ \A a \in RamAddresses \ {obs'.address} :
                RamByte(bus', a) = RamByte(bus, a)
           /\ bus'.wram.rest = bus.wram.rest
           /\ bus'.hram.rest = bus.hram.rest]_vars

\* C37: in a write access the store takes effect before the scheduler is
\* stepped: when an overflow of the timer fires during a write of the
\* interrupt flags, the timer bit is set in the interrupt flags after the
\* access whatever byte was written, and when the timer's event fires during
\* a write of TIMA, the counter afterwards holds the byte written as the
\* callback changes it.
C37_WriteThenStep ==
  [][(obs'.op = "write" /\ obs'.cbs = 1 /\ crashed' = "no") =>
       /\ (obs'.address = ADDR_IF /\ obs'.wrapped) =>
            (bus'.interrupt_flag \div FLAG_TIMER) % 2 = 1
       /\ obs'.address = ADDR_TIMA =>
            bus'.timer.tima =
              IF obs'.data = 255 THEN bus.timer.tma ELSE obs'.data + 1]_vars

\* The condition of a call holds on the flags f (CALL imm16 has none).
CallTaken(op, f) == op = OP_CALL_IMM16 \/ ConditionHolds(op, f)

\* The little-endian word that the bus b holds at the address.
WordAt(b, address) ==
  ReadDecode(b, U16(address + 1)) * 256 + ReadDecode(b, address)

\* The step just made was a call or a restart that has pushed a return
\* address: its last two transactions on the bus are writes.
Called ==
  /\ obs.op = "step" /\ crashed = "no"
  /\ cpu.instruction \in CallOps \cup RstOps
  /\ Len(obs.trace) >= 3
  /\ obs.trace[Len(obs.trace)].kind = "write"
  /\ obs.trace[Len(obs.trace) - 1].kind = "write"

\* C38: with the stack in writable RAM, a taken CALL imm16 at address p
\* pushes p + 3 and goes to its target, and the RET there brings PC back to
\* p + 3 and SP back to what it was before the call; RST n likewise pushes
\* the address of the next instruction and goes to n, and the RET there
\* returns to the instruction after the RST.
C38_CallRetRoundTrip ==
  [][(obs'.op = "step" /\ crashed' = "no") =>
       LET op == cpu'.instruction
           pc == cpu.reg.pc
           sp == cpu.reg.sp
           length == IF op \in RstOps THEN 1 ELSE 3
           target == IF op \in RstOps THEN op - 199 ELSE WordAt(bus, U16(pc + 1))
       IN /\ ((op \in CallOps /\ CallTaken(op, cpu.reg.f)) \/ op \in RstOps) =>
               /\ cpu'.reg.pc = target
               /\ cpu'.reg.sp = U16(sp + 65534)
               /\ WordAt(bus', cpu'.reg.sp) = U16(pc + length)
          /\ (Called /\ op = OP_RET) =>
               /\ cpu'.reg.pc =
                    U16(obs.trace[1].address
                          + (IF cpu.instruction \in RstOps THEN 1 ELSE 3))
               /\ cpu'.reg.sp = U16(obs.trace[Len(obs.trace) - 1].address + 1)]_vars

\* floor(log2(n)) for n >= 1
RECURSIVE Log2Floor(_)
Log2Floor(n) == IF n <= 1 THEN 0 ELSE 1 + Log2Floor(n \div 2)

\* The event that the insert in progress was called with is in slot i.
HoldsInserted(i) ==
  /\ events[i].cb_func = "test_cb"
  /\ events[i].userdata = [d |-> obs.data, t |-> obs.t0, n |-> obs.h0]

\* C39: libyagbe_sched_insert, called with fewer events pending than the
\* heap can hold, returns after at most floor(log2(heap_size + 1)) swaps of
\* its sift-up, with the new event in a live slot.
C39_InsertTerminates ==
  (obs.op = "insert" /\ obs.h0 < MAX_EVENTS) =>
    /\ crashed = "no"
    /\ obs.swaps <= Log2Floor(obs.h0 + 1)
    /\ \E i \in Live : HoldsInserted(i)

====
